---- MODULE Spec2Model ----
(***************************************************************************)
(* Pagination traversal of the Palm Beach County property extractors.      *)
(*                                                                         *)
(* Three scripts of the repository drive a page-advance loop:              *)
(*   "multi"   MultiPageExtractor.run_multi_page_extraction                *)
(*             (src/originals/multi-extract.py)                            *)
(*   "auto"    AutomatedPropertyExtraction.run_headless_extraction         *)
(*             (src/auto-extract.py), the same loop driven from outside    *)
(*             the extractor, with incremental backups and a cleanup       *)
(*   "results" PropertyExtractor.run_extraction / handle_pagination        *)
(*             (src/property_results_extractor.py)                         *)
(* The browser, the rendered pages and the file system are the             *)
(* environment: what they return is drawn with \E from small sets.         *)
(***************************************************************************)
EXTENDS Integers, Sequences, FiniteSets, TLC

(***************************************************************************)
(* Bounds of the model.                                                    *)
(***************************************************************************)
\* largest max_pages argument passed to run_multi_page_extraction
MaxPagesArg == 3
\* largest total page count the pagination UI reports (0 stands for None)
MaxTotal == 3
\* largest page number the "current page" marker reports at start
MaxStart == 2
\* number of result pages the site has: no next page is loaded beyond it
SitePages == 5
\* most mapped rows one extraction path sees on one page
MaxRows == 2
\* most records the accumulated list holds
MaxRecs == 3
\* number of result pages of the long site, on which the literal cap of 50
\* pages is reached
LongSitePages == 51

(***************************************************************************)
(* Program constants.                                                      *)
(***************************************************************************)
\* hard-coded page cap of run_headless_extraction and handle_pagination
HardCap == 50
\* consecutive empty pages that stop the loop
EmptyLimit == 3
\* a backup is written when page_number % BackupEvery = 0
BackupEvery == 5

(***************************************************************************)
(* Strings are sequences of characters, so that str.lower(), str.strip()   *)
(* and truthiness are computed and not assumed.                            *)
(***************************************************************************)
UpperCase ==
  <<"A", "B", "C", "D", "E", "F", "G", "H", "I", "J", "K", "L", "M",
    "N", "O", "P", "Q", "R", "S", "T", "U", "V", "W", "X", "Y", "Z">>
LowerCase ==
  <<"a", "b", "c", "d", "e", "f", "g", "h", "i", "j", "k", "l", "m",
    "n", "o", "p", "q", "r", "s", "t", "u", "v", "w", "x", "y", "z">>
Digits == <<"0", "1", "2", "3", "4", "5", "6", "7", "8", "9">>

\* the elements of a sequence
Range(s) == {s[i] : i \in 1..Len(s)}

\* index of an element in a sequence that holds it
IndexIn(c, s) == CHOOSE i \in 1..Len(s) : s[i] = c

\* str.lower() on one character
LowerChar(c) ==
  IF c \in Range(UpperCase) THEN LowerCase[IndexIn(c, UpperCase)] ELSE c

\* str.lower()
Lower(s) == [i \in 1..Len(s) |-> LowerChar(s[i])]

RECURSIVE LStrip(_)
\* str.lstrip() for the blank character
LStrip(s) == IF s # <<>> /\ Head(s) = " " THEN LStrip(Tail(s)) ELSE s

RECURSIVE RStrip(_)
\* str.rstrip() for the blank character
RStrip(s) ==
  IF s # <<>> /\ s[Len(s)] = " " THEN RStrip(SubSeq(s, 1, Len(s) - 1)) ELSE s

\* str.strip()
Strip(s) == RStrip(LStrip(s))

\* Python truthiness of a str: non-empty
Truthy(s) == s # <<>>

\* "k in s" for two str
Contains(s, k) ==
  \E i \in 0..(Len(s) - Len(k)) : SubSeq(s, i + 1, i + Len(k)) = k

\* any(k in s for k in ks), ks a sequence of str
AnyIn(s, ks) == \E k \in Range(ks) : Contains(s, k)

(***************************************************************************)
(* PropertyRecord, restricted to the fields the traversal, the retention   *)
(* tests and the duplicate keys read.  parcel_number is parcel_id in       *)
(* property_results_extractor.py.                                          *)
(***************************************************************************)
PropertyRecord ==
  [property_address |-> <<>>, owner_name |-> <<>>, parcel_number |-> <<>>,
   sale_price |-> <<>>, municipality |-> <<>>, page_number |-> 0]

\* the rows a page can show, after field mapping, before the retention test
RowFull ==
  [PropertyRecord EXCEPT !.property_address = <<"a">>, !.owner_name = <<"o">>,
                         !.parcel_number = <<"p">>, !.sale_price = <<"$">>]
RowPriceOnly == [PropertyRecord EXCEPT !.sale_price = <<"$">>]
RowBlank == PropertyRecord

Rows == {RowFull, RowPriceOnly, RowBlank}

\* the row sequences one extraction path can be handed on one page
RowSeqs == UNION {[1..n -> Rows] : n \in 0..MaxRows}

\* record.page_number = page_number on every record of a page
Stamp(s, p) == [i \in 1..Len(s) |-> [s[i] EXCEPT !.page_number = p]]

\* extract_from_table / extract_from_rows of multi-extract.py: "only add
\* record if it has core data"
HasCoreData(r) ==
  \/ Truthy(r.sale_price) \/ Truthy(r.property_address) \/ Truthy(r.owner_name)
  \/ Truthy(r.municipality) \/ Truthy(r.parcel_number)

\* extract_from_papa_table: "only add records with meaningful data"
Identifying(r) ==
  Truthy(r.property_address) \/ Truthy(r.owner_name) \/ Truthy(r.parcel_number)

\* extract_from_text of multi-extract.py keeps its single record on this test
HasAddressOrOwner(r) == Truthy(r.property_address) \/ Truthy(r.owner_name)

\* the records extract_from_table / extract_from_rows return for the rows
TableRecords(rows, p) == Stamp(SelectSeq(rows, HasCoreData), p)

\* find_result_rows: the elements of the first selector that matches more
\* than one element, [] if there is none
ResultRows(rows) == IF Len(rows) > 1 THEN rows ELSE <<>>

\* the records extract_from_text returns for the one record it builds
TextRecords(row, p) ==
  IF HasAddressOrOwner(row) THEN Stamp(<<row>>, p) ELSE <<>>

(***************************************************************************)
(* Next-page affordances of a rendered page: for each pattern of the       *)
(* ordered pattern list, the elements find_elements returns, each with     *)
(* what is_displayed() and is_enabled() answer.                            *)
(***************************************************************************)
\* number of next-page patterns the model renders
NumPatterns == 2
\* most elements one pattern matches
MaxMatches == 1

Elements == [displayed : BOOLEAN, enabled : BOOLEAN]
Matches == UNION {[1..n -> Elements] : n \in 0..MaxMatches}
Affordances == [1..NumPatterns -> Matches]

\* position of element i of pattern k in document-of-patterns order
Pos(k, i) == (k - 1) * MaxMatches + i

\* positions of every element the patterns match, in the order tried
AllPos(aff) ==
  {Pos(k, i) : k \in 1..NumPatterns, i \in 1..MaxMatches} \cap
  UNION {{Pos(k, i) : i \in 1..Len(aff[k])} : k \in 1..NumPatterns}

\* the element at a position
ElemAt(aff, q) ==
  LET k == ((q - 1) \div MaxMatches) + 1
      i == ((q - 1) % MaxMatches) + 1
  IN aff[k][i]

\* least element of a non-empty set of positions
MinPos(S) == CHOOSE q \in S : \A r \in S : q <= r

\* position of the first element that is displayed and enabled, 0 if none
FirstVisibleEnabled(aff) ==
  LET ok == {q \in AllPos(aff) :
               ElemAt(aff, q).displayed /\ ElemAt(aff, q).enabled}
  IN IF ok = {} THEN 0 ELSE MinPos(ok)

\* index of the first element of one pattern's matches that passes
\* "element.is_displayed() and element.is_enabled()", 0 if none
FirstUsable(m) ==
  LET ok == {i \in 1..Len(m) : m[i].displayed /\ m[i].enabled}
  IN IF ok = {} THEN 0 ELSE MinPos(ok)

RECURSIVE NavigateFrom(_, _, _)
\* navigate_to_next_page from pattern k on: the positions on which the
\* scroll-and-click was attempted, and whether the method returns True.
\* raises: the next attempt raises (stale element, script error), which
\* "except Exception: continue" turns into a move to the next pattern.
NavigateFrom(aff, k, raises) ==
  IF k > NumPatterns THEN [attempted |-> <<>>, found |-> FALSE]
  ELSE LET i == FirstUsable(aff[k])
       IN IF i = 0 THEN NavigateFrom(aff, k + 1, raises)
          ELSE IF raises
               THEN LET rest == NavigateFrom(aff, k + 1, FALSE)
                    IN [attempted |-> <<Pos(k, i)>> \o rest.attempted,
                        found |-> rest.found]
               ELSE [attempted |-> <<Pos(k, i)>>, found |-> TRUE]

\* navigate_to_next_page(current_page)
NavigateToNextPage(aff, raises) == NavigateFrom(aff, 1, raises)

RECURSIVE NextButtonFrom(_, _)
\* the selector loop of handle_pagination from selector k on: find_element
\* gives the first match of a selector, kept if is_enabled(); 0 if none
NextButtonFrom(aff, k) ==
  IF k > NumPatterns THEN 0
  ELSE IF Len(aff[k]) > 0 /\ aff[k][1].enabled THEN Pos(k, 1)
       ELSE NextButtonFrom(aff, k + 1)

\* next_button of handle_pagination, as a position, 0 for None
NextButton(aff) == NextButtonFrom(aff, 1)

\* wait_for_page_load: True when document.readyState became "complete"
\* within the timeout, False on TimeoutException
WaitForPageLoad(complete) == complete

\* what one call of navigate_to_next_page can do on a rendered page: the
\* first displayed and enabled element of the page, the elements it tried
\* to activate, what wait_for_page_load(15) answered after the click (the
\* method drops the answer), its return value
NavigateOutcomes ==
  {[first |-> FirstVisibleEnabled(aff),
    attempted |-> NavigateToNextPage(aff, raises).attempted,
    loaded |-> NavigateToNextPage(aff, raises).found
                 /\ WaitForPageLoad(complete),
    found |-> NavigateToNextPage(aff, raises).found] :
     aff \in Affordances, raises \in BOOLEAN, complete \in BOOLEAN}

\* what the selector loop and the click of handle_pagination can do on a
\* rendered page: the button chosen (0 for None) and whether the click
\* went through.  A click on an element that is not displayed raises
\* (element not interactable); raises: any other click error
NextButtonOutcomes ==
  {[first |-> FirstVisibleEnabled(aff),
    button |-> NextButton(aff),
    clicked |-> /\ NextButton(aff) # 0
                /\ ElemAt(aff, NextButton(aff)).displayed
                /\ ~raises] :
     aff \in Affordances, raises \in BOOLEAN}

(***************************************************************************)
(* Duplicate removal of property_results_extractor.py.                     *)
(***************************************************************************)
\* key = f"{record.property_address.lower().strip()}|{record.parcel_id.strip()}"
ResultsKey(r) == <<Strip(Lower(r.property_address)), Strip(r.parcel_number)>>

RECURSIVE ResultsDedupFrom(_, _)
\* the loop of PropertyExtractor._remove_duplicates with its seen set
ResultsDedupFrom(s, seen) ==
  IF s = <<>> THEN <<>>
  ELSE LET r == Head(s)
           key == ResultsKey(r)
       IN IF key \notin seen
             /\ (Truthy(r.property_address) \/ Truthy(r.parcel_number))
          THEN <<r>> \o ResultsDedupFrom(Tail(s), seen \cup {key})
          ELSE ResultsDedupFrom(Tail(s), seen)

\* PropertyExtractor._remove_duplicates
ResultsRemoveDuplicates(s) == ResultsDedupFrom(s, {})

\* PropertyExtractor.extract_all_data on a page whose tables hold the rows:
\* extract_from_table appends every row, then duplicates are removed
ExtractAllData(rows) == ResultsRemoveDuplicates(rows)

\* a loop bound that follows a detected total beyond the cap
ActualMaxPagesUncapped(mp, total) == IF total # 0 THEN total ELSE mp

\* a loop bound one page beyond the cap when no total was detected
ActualMaxPagesLoose(mp, total) ==
  IF total # 0 THEN (IF mp <= total THEN mp ELSE total) ELSE mp + 1

\* min(max_pages, total_pages) when a total was detected, else max_pages
ActualMaxPages(mp, total) ==
  IF total # 0 THEN (IF mp <= total THEN mp ELSE total) ELSE mp

\* a page counter that goes back
PageNumberBack(p) == p - 1

\* a page counter that stays where it is
SamePageNumber(p) == p

\* page_number += 1 (page_num += 1 in handle_pagination)
NextPageNumber(p) == p + 1

\* a known total that the page number is short of by one: the break is late
ReachedKnownTotalLate(total, p) == total # 0 /\ p > total

\* "if self.total_pages and page_number >= self.total_pages"
ReachedKnownTotal(total, p) == total # 0 /\ p >= total

(***************************************************************************)
(* State.                                                                  *)
(***************************************************************************)
VARIABLES
  site,                     \* the site visited: "short" or "long"
  script,                   \* which of the three scripts runs
  pc,                       \* position of the script
  max_pages,                \* page cap: the argument, or the literal 50
  total_pages,              \* detected total, 0 for None
  current_page,             \* extractor.current_page
  page_number,              \* loop variable (page_num in handle_pagination)
  actual_max_pages,         \* bound of the while loop
  consecutive_empty_pages,  \* empty pages in a row
  page_records,             \* records of the page just extracted
  all_records,              \* the accumulated records
  reason,                   \* which exit of the loop was taken
  final_file,               \* the final or partial output file
  backups,                  \* backup_page_* files on disk
  removed,                  \* backup files the cleanup deleted
  returned,                 \* return value of the run
  visited,                  \* history: pages extracted, with record counts
  nav,                      \* history: the search the last step made
  navPages,                 \* history: pages on which a next page was sought
  snapshots,                \* history: pages at which a backup was attempted
  interrupted,              \* history: a KeyboardInterrupt was delivered
  atInterrupt               \* history: the session when it was delivered

VARIABLES
  mapper,                   \* which _create_*column_mapping is called
  headers,                  \* its argument: the header texts of a table
  column_mapping,           \* the mapping: column index -> field name
  calls,                    \* history: number of calls made
  first_headers,            \* history: the argument of the first call
  first_mapping             \* history: the mapping the first call returned

VARIABLES
  extractor,                \* which table extraction runs on the row
  headed,                   \* the first row of the table has cells
  columns,                  \* the table: header text and cell text of each
                            \* column
  stage,                    \* position in the extraction of the row
  record,                   \* the PropertyRecord of the row
  header_record,            \* history: the record after the first pass
  records                   \* the records the table extraction returns

VARIABLES
  engine,                   \* which extractor reads the page
  render,                   \* the rendered page
  phase,                    \* position in the extraction of the page
  structure_type,           \* analysis['structure_type']
  analysis_tables,          \* analysis['tables'], as indices of the tables
  tried,                    \* history: the extraction paths run, in order
  extracted,                \* the records the extraction returns
  load_waits                \* history: what each wait_for_page_load returned

VARIABLES
  method,                   \* which loop over the items of a page runs
  items,                    \* what the body of the loop does on each item
  item_idx,                 \* the item the loop is at
  item_stage,               \* position of the method
  item_records              \* the records list, as the items they are of

VARIABLES
  deduper,                  \* which _remove_duplicates runs
  dedup_records,            \* its argument: the records of a page
  dedup_idx,                \* the record its loop is at
  seen,                     \* its set of keys
  unique_records            \* the list it returns

VARIABLES
  pipeline,                 \* which orchestration script runs
  step,                     \* position in its run method
  search_process,           \* the search subprocess
  stable_results_count,     \* consecutive successful checks
  attempt,                  \* loop variable of verify_page_ready
  ready,                    \* what the readiness function returned
  success,                  \* what the run method returns
  checks,                   \* history: the checks of the results page
  started,                  \* history: the steps started, in order
  halted,                   \* history: the exception that ended the try
  cleaned                   \* history: cleanup() ran

mvars == <<mapper, headers, column_mapping, calls, first_headers,
           first_mapping>>

rvars == <<extractor, headed, columns, stage, record, header_record,
           records>>
pvars == <<engine, render, phase, structure_type, analysis_tables, tried,
           extracted, load_waits>>

ivars == <<method, items, item_idx, item_stage, item_records>>
dvars == <<deduper, dedup_records, dedup_idx, seen, unique_records>>
ovars == <<pipeline, step, search_process, stable_results_count, attempt,
           ready, success, checks, started, halted, cleaned>>

\* what a traversal never touches
fixed == <<site, mvars, rvars, pvars, ivars, dvars, ovars>>

prog == <<fixed, script, max_pages, total_pages, current_page, page_number,
          actual_max_pages, consecutive_empty_pages, page_records,
          all_records>>
outs == <<final_file, backups, removed, returned>>
hist == <<visited, navPages, snapshots>>
intr == <<interrupted, atInterrupt>>
vars == <<pc, reason, prog, outs, hist, nav, intr>>

\* the variables of a traversal, without the fixed ones
traversal ==
  <<pc, reason, script, max_pages, total_pages, current_page, page_number,
    actual_max_pages, consecutive_empty_pages, page_records, all_records,
    outs, hist, nav, intr>>

\* what the mapper, the extraction of a row, the extraction of a page, the
\* loop over the items of a page, the removal of duplicates and the
\* orchestration leave alone
beside_mapper == <<site, traversal, rvars, pvars, ivars, dvars, ovars>>
beside_row == <<site, traversal, mvars, pvars, ivars, dvars, ovars>>
beside_page == <<site, traversal, mvars, rvars, ivars, dvars, ovars>>
beside_items == <<site, traversal, mvars, rvars, pvars, dvars, ovars>>
beside_dedup == <<site, traversal, mvars, rvars, pvars, ivars, ovars>>
beside_pipeline == <<site, traversal, mvars, rvars, pvars, ivars, dvars>>

Scripts == {"multi", "auto", "results"}

NoFile == [state |-> "none", name |-> "none", content |-> <<>>]
NoNav ==
  [page |-> 0, first |-> 0, attempted |-> <<>>, loaded |-> FALSE,
   found |-> FALSE]
NoInterrupt == [records |-> <<>>, visits |-> 0]

\* the file an open-and-write of the records leaves: written whole, or the
\* write raised and the method caught it
Written(fname, recs, ok) ==
  [state |-> IF ok THEN "ok" ELSE "failed", name |-> fname,
   content |-> IF ok THEN recs ELSE <<>>]

\* what the site visited can show and do.  The short site shows any rows on
\* any page; the long site shows one full row in a table on every page, so
\* that a traversal can go on to the cap of 50 pages, and is visited with
\* a backup directory that takes every write and every removal.
SiteRowSeqs == IF site = "long" THEN {<<RowFull>>} ELSE RowSeqs
SiteRaises == IF site = "long" THEN {FALSE} ELSE BOOLEAN
SiteLastPage == IF site = "long" THEN LongSitePages ELSE SitePages
SiteMaxRecs == IF site = "long" THEN LongSitePages ELSE MaxRecs
BackupWrites == IF site = "long" THEN {TRUE} ELSE BOOLEAN
Removals(files) == IF site = "long" THEN {files} ELSE SUBSET files

\* the state after construction, on site s.  max_pages: the argument of
\* run_multi_page_extraction (50 by default, as __main__ calls it), the
\* literal 50 of the other two scripts
InitOn(s) ==
  /\ site = s
  /\ script \in Scripts
  /\ pc = "start"
  /\ max_pages \in IF script = "multi" /\ s = "short" THEN 1..MaxPagesArg
                   ELSE {HardCap}
  /\ total_pages = 0
  /\ current_page = 1
  /\ page_number = 1
  /\ actual_max_pages = max_pages
  /\ consecutive_empty_pages = 0
  /\ page_records = <<>>
  /\ all_records = <<>>
  /\ reason = "none"
  /\ final_file = NoFile
  /\ backups = {}
  /\ removed = {}
  /\ returned = "none"
  /\ visited = <<>>
  /\ nav = NoNav
  /\ navPages = {}
  /\ snapshots = {}
  /\ interrupted = FALSE
  /\ atInterrupt = NoInterrupt

\* a dict with no entry
EmptyMapping == [col \in {} |-> ""]

\* no record
NoRecord == [f \in {} |-> <<>>]

\* the mapper, the extraction of a table row, the extraction of a page, the
\* loop over the items of a page, the removal of duplicates and the
\* orchestration run on their own: all of them but the running ones are
\* idle
Idle(running) ==
  /\ IF "mapper" \in running THEN TRUE
     ELSE /\ mapper = "none"
          /\ headers = <<>>
          /\ column_mapping = EmptyMapping
          /\ calls = 0
          /\ first_headers = <<>>
          /\ first_mapping = EmptyMapping
  /\ IF "row" \in running THEN TRUE
     ELSE /\ extractor = "none"
          /\ headed = FALSE
          /\ columns = <<>>
          /\ stage = "idle"
          /\ record = NoRecord
          /\ header_record = NoRecord
          /\ records = <<>>
  /\ IF "page" \in running THEN TRUE
     ELSE /\ engine = "none"
          /\ render = [tables |-> <<>>, elements |-> 0, kept |-> FALSE]
          /\ phase = "idle"
          /\ structure_type = "unknown"
          /\ analysis_tables = <<>>
          /\ tried = <<>>
          /\ extracted = <<>>
          /\ load_waits = <<>>
  /\ IF "items" \in running THEN TRUE
     ELSE /\ method = "none"
          /\ items = <<>>
          /\ item_idx = 0
          /\ item_stage = "idle"
          /\ item_records = <<>>
  /\ IF "dedup" \in running THEN TRUE
     ELSE /\ deduper = "none"
          /\ dedup_records = <<>>
          /\ dedup_idx = 0
          /\ seen = {}
          /\ unique_records = <<>>
  /\ IF "pipeline" \in running THEN TRUE
     ELSE /\ pipeline = "none"
          /\ step = "idle"
          /\ search_process = "none"
          /\ stable_results_count = 0
          /\ attempt = 0
          /\ ready = "none"
          /\ success = FALSE
          /\ checks = <<>>
          /\ started = <<>>
          /\ halted = "none"
          /\ cleaned = FALSE

Init == InitOn("short") /\ Idle({})

(***************************************************************************)
(* run_multi_page_extraction and run_headless_extraction.                  *)
(***************************************************************************)
\* connect_to_browser (multi), the import of the extractor (auto), the
\* browser session and wait_for_results_page (results)
Start ==
  /\ pc = "start"
  /\ \E ok \in BOOLEAN :
       IF ok
       THEN /\ pc' = IF script = "results" THEN "r_analyze" ELSE "detect"
            /\ UNCHANGED returned
       ELSE /\ pc' = "done"
            /\ returned' = IF script = "auto" THEN "false" ELSE "none"
  /\ UNCHANGED <<reason, prog, final_file, backups, removed, hist, intr>>
  /\ nav' = NoNav

\* detect_total_pages, actual_max_pages, get_current_page_number
Detect ==
  /\ pc = "detect"
  /\ \E t \in 0..MaxTotal, s \in 1..MaxStart :
       /\ total_pages' = t
       /\ actual_max_pages' = ActualMaxPages(max_pages, t)
       /\ current_page' = s
       /\ page_number' = s
  /\ consecutive_empty_pages' = 0
  /\ pc' = "loop_test"
  /\ UNCHANGED <<fixed,
                 script, max_pages, page_records, all_records, reason, outs,
                 hist, intr>>
  /\ nav' = NoNav

\* while page_number <= actual_max_pages
LoopTest ==
  /\ pc = "loop_test"
  /\ IF page_number <= actual_max_pages
     THEN pc' = "tables" /\ UNCHANGED reason
     ELSE pc' = "save" /\ reason' = "max_page_cap"
  /\ nav' = NoNav
  /\ UNCHANGED <<prog, outs, visited, navPages, snapshots, intr>>

\* extract_current_page_data: the tables of the page.  raised: an exception
\* inside the method, which returns [] for the page
ExtractTables ==
  /\ pc = "tables"
  /\ \E rows \in SiteRowSeqs, raised \in SiteRaises :
       LET recs == IF raised THEN <<>> ELSE TableRecords(rows, page_number)
       IN /\ Len(all_records) + Len(recs) <= SiteMaxRecs
          /\ page_records' = recs
          /\ pc' = IF raised \/ recs # <<>> THEN "append" ELSE "find_rows"
  /\ UNCHANGED <<fixed,
                 script, max_pages, total_pages, current_page, page_number,
                 actual_max_pages, consecutive_empty_pages, all_records,
                 reason, outs, hist, intr>>
  /\ nav' = NoNav

\* extract_current_page_data: find_result_rows (a selector counts when it
\* matches more than one element) and extract_from_rows
ExtractRows ==
  /\ pc = "find_rows"
  /\ \E rows \in SiteRowSeqs :
       LET recs == TableRecords(ResultRows(rows), page_number)
       IN /\ Len(all_records) + Len(recs) <= SiteMaxRecs
          /\ page_records' = recs
          /\ pc' = IF recs # <<>> THEN "append" ELSE "text"
  /\ UNCHANGED <<fixed,
                 script, max_pages, total_pages, current_page, page_number,
                 actual_max_pages, consecutive_empty_pages, all_records,
                 reason, outs, hist, intr>>
  /\ nav' = NoNav

\* extract_current_page_data: extract_from_text
ExtractText ==
  /\ pc = "text"
  /\ \E row \in Rows, raised \in SiteRaises :
       LET recs == IF raised THEN <<>> ELSE TextRecords(row, page_number)
       IN /\ Len(all_records) + Len(recs) <= SiteMaxRecs
          /\ page_records' = recs
  /\ pc' = "append"
  /\ UNCHANGED <<fixed,
                 script, max_pages, total_pages, current_page, page_number,
                 actual_max_pages, consecutive_empty_pages, all_records,
                 reason, outs, hist, intr>>
  /\ nav' = NoNav

\* if page_records: extend, reset the counter (auto: backup every 5 pages)
\* else: count the empty page, break on the third in a row
AppendPage ==
  /\ pc = "append"
  /\ visited' = Append(visited, [page |-> page_number, n |-> Len(page_records)])
  /\ IF page_records # <<>>
     THEN /\ all_records' = all_records \o page_records
          /\ consecutive_empty_pages' = 0
          /\ pc' = IF script = "auto" /\ page_number % BackupEvery = 0
                   THEN "backup" ELSE "check_total"
          /\ UNCHANGED reason
     ELSE /\ consecutive_empty_pages' = consecutive_empty_pages + 1
          /\ IF consecutive_empty_pages + 1 >= EmptyLimit
             THEN pc' = "save" /\ reason' = "three_consecutive_empty_pages"
             ELSE pc' = "check_total" /\ UNCHANGED reason
          /\ UNCHANGED all_records
  /\ UNCHANGED <<fixed,
                 script, max_pages, total_pages, current_page, page_number,
                 actual_max_pages, page_records, outs, navPages,
                 snapshots, intr>>
  /\ nav' = NoNav

\* save_results_to_csv(filename=backup_page_<n>_...) inside try/except: pass
Backup ==
  /\ pc = "backup"
  /\ \E ok \in BackupWrites :
       backups' = IF ok
                  THEN backups \cup {[page |-> page_number,
                                      content |-> all_records]}
                  ELSE backups
  /\ snapshots' = snapshots \cup {page_number}
  /\ pc' = "check_total"
  /\ UNCHANGED <<reason, prog, final_file, removed, returned, visited,
                 navPages, intr>>
  /\ nav' = NoNav

\* if self.total_pages and page_number >= self.total_pages: break
CheckTotal ==
  /\ pc = "check_total"
  /\ IF ReachedKnownTotal(total_pages, page_number)
     THEN pc' = "save" /\ reason' = "reached_known_total"
     ELSE pc' = "navigate" /\ UNCHANGED reason
  /\ UNCHANGED <<prog, outs, hist, intr>>
  /\ nav' = NoNav

\* if not navigate_to_next_page(page_number): break
Navigate ==
  /\ pc = "navigate"
  /\ \E o \in NavigateOutcomes :
       /\ o.found => page_number < SiteLastPage
       /\ nav' = [page |-> page_number, first |-> o.first,
                  attempted |-> o.attempted, loaded |-> o.loaded,
                  found |-> o.found]
       /\ IF o.found
          THEN pc' = "advance" /\ UNCHANGED reason
          ELSE pc' = "save" /\ reason' = "no_next_affordance"
  /\ navPages' = navPages \cup {page_number}
  /\ UNCHANGED <<prog, outs, visited, snapshots, intr>>

\* page_number += 1; current_page = page_number
Advance ==
  /\ pc = "advance"
  /\ page_number' = NextPageNumber(page_number)
  /\ current_page' = page_number'
  /\ pc' = IF page_number' <= actual_max_pages THEN "pace" ELSE "loop_test"
  /\ UNCHANGED <<fixed,
                 script, max_pages, total_pages, actual_max_pages,
                 consecutive_empty_pages, page_records, all_records, reason,
                 outs, hist, intr>>
  /\ nav' = NoNav

\* time.sleep(8)
Pace ==
  /\ pc = "pace"
  /\ pc' = "loop_test"
  /\ UNCHANGED <<reason, prog, outs, hist, intr>>
  /\ nav' = NoNav

\* if all_records: save_results_to_csv(...), after the loop or in the
\* KeyboardInterrupt / Exception handler of run_multi_page_extraction
Save ==
  /\ pc = "save"
  /\ IF all_records # <<>>
     THEN /\ \E ok \in BOOLEAN :
               final_file' = Written(IF script = "multi"
                                     THEN "multi_page_properties"
                                     ELSE "property_data", all_records, ok)
          /\ pc' = IF script = "auto" THEN "cleanup" ELSE "done"
          /\ UNCHANGED returned
     ELSE /\ pc' = "done"
          /\ returned' = IF script = "auto" THEN "false" ELSE returned
          /\ UNCHANGED final_file
  /\ UNCHANGED <<reason, prog, backups, removed, hist, intr>>
  /\ nav' = NoNav

\* glob backup_page_*.csv and os.remove each, in try/except: pass; return True
Cleanup ==
  /\ pc = "cleanup"
  /\ \E gone \in Removals(backups) :
       /\ backups' = backups \ gone
       /\ removed' = removed \cup gone
  /\ returned' = "true"
  /\ pc' = "done"
  /\ UNCHANGED <<reason, prog, final_file, hist, intr>>
  /\ nav' = NoNav

\* except Exception of run_headless_extraction: save partial results
PartialSave ==
  /\ pc = "partial_save"
  /\ IF all_records # <<>>
     THEN \E ok \in BOOLEAN :
            final_file' = Written("partial_results", all_records, ok)
     ELSE UNCHANGED final_file
  /\ returned' = "false"
  /\ pc' = "done"
  /\ UNCHANGED <<reason, prog, backups, removed, hist, intr>>
  /\ nav' = NoNav

(***************************************************************************)
(* PropertyExtractor.run_extraction and handle_pagination.                 *)
(***************************************************************************)
\* analysis = analyze_page_structure(); analysis['pagination'] picks
\* handle_pagination or a single extract_all_data
Analyze ==
  /\ pc = "r_analyze"
  /\ \E pagination \in BOOLEAN :
       pc' = IF pagination THEN "r_extract" ELSE "r_single"
  /\ page_number' = 1
  /\ UNCHANGED <<fixed,
                 script, max_pages, total_pages, current_page,
                 actual_max_pages, consecutive_empty_pages, page_records,
                 all_records, reason, outs, hist, intr>>
  /\ nav' = NoNav

\* records = self.extract_all_data() on a page without pagination
ExtractSingle ==
  /\ pc = "r_single"
  /\ \E rows \in SiteRowSeqs :
       LET recs == ExtractAllData(rows)
       IN /\ page_records' = recs
          /\ all_records' = recs
          /\ visited' = Append(visited, [page |-> page_number, n |-> Len(recs)])
  /\ pc' = "r_export"
  /\ UNCHANGED <<fixed,
                 script, max_pages, total_pages, current_page, page_number,
                 actual_max_pages, consecutive_empty_pages, reason, outs,
                 navPages, snapshots, intr>>
  /\ nav' = NoNav

\* page_records = self.extract_all_data(); all_records.extend(page_records)
ExtractPage ==
  /\ pc = "r_extract"
  /\ \E rows \in SiteRowSeqs :
       LET recs == ExtractAllData(rows)
       IN /\ Len(all_records) + Len(recs) <= SiteMaxRecs
          /\ page_records' = recs
          /\ all_records' = all_records \o recs
          /\ visited' = Append(visited, [page |-> page_number, n |-> Len(recs)])
  /\ nav' = NoNav
  /\ pc' = "r_next"
  /\ UNCHANGED <<fixed,
                 script, max_pages, total_pages, current_page, page_number,
                 actual_max_pages, consecutive_empty_pages, reason, outs,
                 navPages, snapshots, intr>>

\* the selector loop, "if not next_button: break", next_button.click(),
\* time.sleep(3) (no wait for the document), page_num += 1 and the safety
\* limit
NextPage ==
  /\ pc = "r_next"
  /\ \E o \in NextButtonOutcomes :
       /\ o.clicked => page_number < SiteLastPage
       /\ nav' = [page |-> page_number, first |-> o.first,
                  attempted |-> IF o.button = 0 THEN <<>> ELSE <<o.button>>,
                  loaded |-> FALSE, found |-> o.clicked]
       /\ IF o.button = 0
          THEN /\ pc' = "r_export"
               /\ reason' = "no_next_affordance"
               /\ UNCHANGED page_number
          ELSE IF ~o.clicked
          THEN /\ pc' = "r_export"
               /\ reason' = "navigation_error"
               /\ UNCHANGED page_number
          ELSE /\ page_number' = NextPageNumber(page_number)
               /\ IF page_number' > max_pages
                  THEN pc' = "r_export" /\ reason' = "max_page_cap"
                  ELSE pc' = "r_extract" /\ UNCHANGED reason
  /\ navPages' = navPages \cup {page_number}
  /\ UNCHANGED <<fixed,
                 script, max_pages, total_pages, current_page,
                 actual_max_pages, consecutive_empty_pages, page_records,
                 all_records, outs, visited, snapshots, intr>>

\* if not records: return None; export_to_csv(records); return csv_file
\* (export_to_csv returns "" when the write raised)
Export ==
  /\ pc = "r_export"
  /\ IF all_records # <<>>
     THEN \E ok \in BOOLEAN :
            /\ final_file' = Written("palm_beach_properties", all_records, ok)
            /\ returned' = IF ok THEN "true" ELSE "false"
     ELSE UNCHANGED <<final_file, returned>>
  /\ pc' = "done"
  /\ UNCHANGED <<reason, prog, backups, removed, hist, intr>>
  /\ nav' = NoNav

(***************************************************************************)
(* KeyboardInterrupt and unhandled exceptions.                             *)
(***************************************************************************)
\* positions inside the try of the loop whose KeyboardInterrupt handler
\* leads to the save: the whole try of run_multi_page_extraction, the inner
\* try of run_headless_extraction
LoopPcs ==
  {"loop_test", "tables", "find_rows", "text", "append", "check_total",
   "navigate", "advance", "pace"}

\* positions whose code sits in a bare "except:", which also catches
\* KeyboardInterrupt: get_current_page_number, find_result_rows, the backup
\* and the cleanup of auto-extract.py, the selector loop of handle_pagination
BareExceptPcs ==
  IF script = "multi" THEN {"detect", "find_rows"}
  ELSE IF script = "auto" THEN {"detect", "find_rows", "backup", "cleanup"}
  ELSE {"r_next"}

\* where the script continues after a bare except swallowed the exception
AfterSwallow(p) ==
  IF p = "backup" THEN "check_total"
  ELSE IF p = "cleanup" THEN "done"
  ELSE p

\* a KeyboardInterrupt is delivered and a bare "except:" swallows it
InterruptSwallowed ==
  /\ ~interrupted
  /\ pc \in BareExceptPcs
  /\ interrupted' = TRUE
  /\ atInterrupt' = [records |-> all_records, visits |-> Len(visited)]
  /\ pc' = AfterSwallow(pc)
  /\ returned' = IF pc = "cleanup" THEN "true" ELSE returned
  /\ snapshots' = IF pc = "backup" THEN snapshots \cup {page_number}
                  ELSE snapshots
  /\ UNCHANGED <<reason, prog, final_file, backups, removed, visited,
                 navPages>>
  /\ nav' = NoNav

\* a KeyboardInterrupt is delivered and reaches "except KeyboardInterrupt"
InterruptCaught ==
  /\ ~interrupted
  /\ \/ script = "multi" /\ pc \in LoopPcs \cup {"save"}
     \/ script = "auto" /\ pc \in LoopPcs \cup {"backup"}
  /\ pc # "backup"
  /\ interrupted' = TRUE
  /\ atInterrupt' = [records |-> all_records, visits |-> Len(visited)]
  /\ reason' = "user_interrupt"
  /\ pc' = "save"
  /\ UNCHANGED <<prog, outs, hist>>
  /\ nav' = NoNav

\* a KeyboardInterrupt is delivered where no handler saves: before the try
\* (multi), outside the inner try (auto: run() catches it and returns
\* False), anywhere in run_extraction (results: return None)
InterruptLost ==
  /\ ~interrupted
  /\ \/ script = "multi" /\ pc = "detect"
     \/ script = "auto" /\ pc \in {"detect", "save", "partial_save"}
     \/ script = "results" /\ pc \in {"r_analyze", "r_single", "r_extract",
                                      "r_next", "r_export"}
  /\ interrupted' = TRUE
  /\ atInterrupt' = [records |-> all_records, visits |-> Len(visited)]
  /\ reason' = "user_interrupt"
  /\ returned' = IF script = "auto" THEN "false" ELSE "none"
  /\ pc' = "done"
  /\ UNCHANGED <<prog, final_file, backups, removed, hist>>
  /\ nav' = NoNav

\* an exception escapes the loop body: "except Exception" saves (multi),
\* the outer handler saves partial results (auto), run_extraction returns
\* None (results)
FatalError ==
  /\ \/ script \in {"multi", "auto"}
        /\ pc \in {"loop_test", "append", "check_total", "advance", "pace"}
     \/ script = "results" /\ pc \in {"r_single", "r_extract"}
  /\ reason' = "fatal_error"
  /\ pc' = IF script = "multi" THEN "save"
           ELSE IF script = "auto" THEN "partial_save" ELSE "done"
  /\ UNCHANGED <<prog, outs, hist, intr>>
  /\ nav' = NoNav

Next ==
  \/ Start
  \/ Detect
  \/ LoopTest
  \/ ExtractTables
  \/ ExtractRows
  \/ ExtractText
  \/ AppendPage
  \/ Backup
  \/ CheckTotal
  \/ Navigate
  \/ Advance
  \/ Pace
  \/ Save
  \/ Cleanup
  \/ PartialSave
  \/ Analyze
  \/ ExtractSingle
  \/ ExtractPage
  \/ NextPage
  \/ Export
  \/ InterruptSwallowed
  \/ InterruptCaught
  \/ InterruptLost
  \/ FatalError

Spec == Init /\ [][Next]_vars

\* the steps of a run in which extract_current_page_data finds its records
\* in the tables of the page
TablesNext ==
  \/ Start
  \/ Detect
  \/ LoopTest
  \/ ExtractTables
  \/ AppendPage
  \/ Backup
  \/ CheckTotal
  \/ Navigate
  \/ Advance
  \/ Pace
  \/ Save
  \/ Cleanup
  \/ Analyze
  \/ ExtractSingle
  \/ ExtractPage
  \/ NextPage
  \/ Export
  \/ PartialSave
  \/ InterruptSwallowed
  \/ InterruptCaught
  \/ InterruptLost
  \/ FatalError

\* runs of the three scripts on the long site
LongInit == InitOn("long") /\ Idle({})

LongTraversal == LongInit /\ [][TablesNext]_vars

TypeOK ==
  /\ script \in Scripts
  /\ site \in {"short", "long"}
  /\ page_number \in 1..(SiteLastPage + 1)
  /\ total_pages \in 0..MaxTotal
  /\ consecutive_empty_pages \in 0..EmptyLimit
  /\ Len(all_records) <= SiteMaxRecs
  /\ interrupted \in BOOLEAN


(***************************************************************************)
(* The field mappers: EnhancedPropertyExtractor._create_papa_column_mapping *)
(* and PropertyExtractor._create_column_mapping.  Column indices count     *)
(* from 1 here, from 0 in the code.                                        *)
(***************************************************************************)
\* most header cells of a table handed to a mapper
MaxHeaderCols == 2
\* most calls of a mapper in one run
MaxCalls == 3

\* papa_field_keywords of _create_papa_column_mapping, in iteration order
papa_field_keywords ==
  <<
   [field |-> "property_address",
    keywords |->
      <<<<"a", "d", "d", "r", "e", "s", "s">>,
        <<"l", "o", "c", "a", "t", "i", "o", "n">>,
        <<"s", "t", "r", "e", "e", "t">>,
        <<"s", "i", "t", "e", " ", "a", "d", "d", "r", "e", "s", "s">>,
        <<"p", "r", "o", "p", "e", "r", "t", "y",
          " ", "l", "o", "c", "a", "t", "i", "o", "n">>,
        <<"s", "i", "t", "u", "s">>>>],
   [field |-> "owner_name",
    keywords |->
      <<<<"o", "w", "n", "e", "r">>, <<"n", "a", "m", "e">>,
        <<"t", "a", "x", "p", "a", "y", "e", "r">>,
        <<"o", "w", "n", "e", "r", " ", "n", "a", "m", "e">>,
        <<"t", "a", "x", "p", "a", "y", "e", "r", " ", "n", "a", "m", "e">>>>],
   [field |-> "mail_address",
    keywords |->
      <<<<"m", "a", "i", "l", "i", "n", "g">>, <<"m", "a", "i", "l">>,
        <<"m", "a", "i", "l", "i", "n", "g",
          " ", "a", "d", "d", "r", "e", "s", "s">>,
        <<"o", "w", "n", "e", "r", " ", "a", "d", "d", "r", "e", "s", "s">>>>],
   [field |-> "mail_city_state_zip",
    keywords |->
      <<<<"m", "a", "i", "l", " ", "c", "i", "t", "y">>,
        <<"m", "a", "i", "l", " ", "s", "t", "a", "t", "e">>,
        <<"m", "a", "i", "l", " ", "z", "i", "p">>,
        <<"c", "i", "t", "y", " ", "s", "t",
          "a", "t", "e", " ", "z", "i", "p">>,
        <<"o", "w", "n", "e", "r", " ", "c", "i", "t", "y">>>>],
   [field |-> "property_value",
    keywords |->
      <<<<"j", "u", "s", "t", " ", "v", "a", "l", "u", "e">>,
        <<"m", "a", "r", "k", "e", "t", " ", "v", "a", "l", "u", "e">>,
        <<"a", "s", "s", "e", "s", "s", "e", "d">>,
        <<"a", "s", "s", "e", "s", "s", "m", "e", "n", "t">>,
        <<"t", "o", "t", "a", "l", " ", "v", "a", "l", "u", "e">>>>],
   [field |-> "assessed_value",
    keywords |->
      <<<<"a", "s", "s", "e", "s", "s", "e", "d">>,
        <<"a", "s", "s", "e", "s", "s", "e",
          "d", " ", "v", "a", "l", "u", "e">>,
        <<"a", "s", "s", "e", "s", "s", "m", "e", "n", "t">>>>],
   [field |-> "market_value",
    keywords |->
      <<<<"m", "a", "r", "k", "e", "t">>,
        <<"m", "a", "r", "k", "e", "t", " ", "v", "a", "l", "u", "e">>,
        <<"f", "a", "i", "r", " ", "m", "a", "r", "k", "e", "t">>>>],
   [field |-> "taxable_value",
    keywords |->
      <<<<"t", "a", "x", "a", "b", "l", "e">>,
        <<"t", "a", "x", "a", "b", "l", "e", " ", "v", "a", "l", "u", "e">>,
        <<"n", "e", "t", " ", "t", "a", "x", "a", "b", "l", "e">>>>],
   [field |-> "square_footage",
    keywords |->
      <<<<"s", "q", "f", "t">>, <<"s", "q", " ", "f", "t">>,
        <<"s", "q", "u", "a", "r", "e">>,
        <<"f", "o", "o", "t", "a", "g", "e">>,
        <<"b", "u", "i", "l", "d", "i", "n", "g", " ", "a", "r", "e", "a">>,
        <<"l", "i", "v", "i", "n", "g", " ", "a", "r", "e", "a">>>>],
   [field |-> "lot_size",
    keywords |->
      <<<<"l", "o", "t">>, <<"l", "a", "n", "d">>,
        <<"l", "o", "t", " ", "s", "i", "z", "e">>,
        <<"l", "o", "t", " ", "s", "q", "f", "t">>,
        <<"l", "a", "n", "d", " ", "s", "q", "f", "t">>,
        <<"l", "o", "t", " ", "a", "r", "e", "a">>>>],
   [field |-> "acres",
    keywords |->
      <<<<"a", "c", "r", "e", "s">>, <<"a", "c", "r", "e", "a", "g", "e">>,
        <<"a", "c", "r", "e">>>>],
   [field |-> "parcel_number",
    keywords |->
      <<<<"p", "a", "r", "c", "e", "l">>, <<"p", "c", "n">>,
        <<"p", "a", "r", "c", "e", "l", " ", "i", "d">>,
        <<"p", "a", "r", "c", "e", "l", " ", "n", "u", "m", "b", "e", "r">>>>],
   [field |-> "account_number",
    keywords |->
      <<<<"a", "c", "c", "o", "u", "n", "t">>,
        <<"a", "c", "c", "o", "u", "n", "t",
          " ", "n", "u", "m", "b", "e", "r">>, <<"a", "c", "c", "t">>>>],
   [field |-> "folio_number",
    keywords |->
      <<<<"f", "o", "l", "i", "o">>,
        <<"f", "o", "l", "i", "o", " ", "n", "u", "m", "b", "e", "r">>>>],
   [field |-> "sale_price",
    keywords |->
      <<<<"s", "a", "l", "e">>, <<"s", "o", "l", "d">>,
        <<"p", "r", "i", "c", "e">>,
        <<"s", "a", "l", "e", " ", "p", "r", "i", "c", "e">>,
        <<"l", "a", "s", "t", " ", "s", "a", "l", "e">>>>],
   [field |-> "sale_date",
    keywords |->
      <<<<"d", "a", "t", "e">>,
        <<"s", "o", "l", "d", " ", "d", "a", "t", "e">>,
        <<"s", "a", "l", "e", " ", "d", "a", "t", "e">>,
        <<"l", "a", "s", "t", " ", "s", "a",
          "l", "e", " ", "d", "a", "t", "e">>>>],
   [field |-> "year_built",
    keywords |->
      <<<<"y", "e", "a", "r", " ", "b", "u", "i", "l", "t">>,
        <<"b", "u", "i", "l", "t">>,
        <<"c", "o", "n", "s", "t", "r", "u", "c", "t", "i", "o", "n">>,
        <<"y", "e", "a", "r", " ", "c", "o", "n",
          "s", "t", "r", "u", "c", "t", "e", "d">>>>],
   [field |-> "property_type",
    keywords |->
      <<<<"t", "y", "p", "e">>,
        <<"p", "r", "o", "p", "e", "r", "t", "y", " ", "t", "y", "p", "e">>,
        <<"c", "l", "a", "s", "s">>>>],
   [field |-> "property_use",
    keywords |->
      <<<<"u", "s", "e">>, <<"l", "a", "n", "d", " ", "u", "s", "e">>,
        <<"p", "r", "o", "p", "e", "r", "t", "y", " ", "u", "s", "e">>>>],
   [field |-> "municipality",
    keywords |->
      <<<<"c", "i", "t", "y">>,
        <<"m", "u", "n", "i", "c", "i", "p", "a", "l", "i", "t", "y">>,
        <<"j", "u", "r", "i", "s", "d", "i", "c", "t", "i", "o", "n">>>>],
   [field |-> "neighborhood",
    keywords |->
      <<<<"n", "e", "i", "g", "h", "b", "o", "r", "h", "o", "o", "d">>,
        <<"d", "i", "s", "t", "r", "i", "c", "t">>, <<"a", "r", "e", "a">>>>],
   [field |-> "subdivision",
    keywords |->
      <<<<"s", "u", "b", "d", "i", "v", "i", "s", "i", "o", "n">>,
        <<"s", "u", "b", "d", "i", "v">>, <<"p", "l", "a", "t">>>>],
   [field |-> "zoning",
    keywords |->
      <<<<"z", "o", "n", "e">>, <<"z", "o", "n", "i", "n", "g">>>>],
   [field |-> "land_use_code",
    keywords |->
      <<<<"l", "a", "n", "d", " ", "u", "s", "e">>,
        <<"u", "s", "e", " ", "c", "o", "d", "e">>, <<"l", "u", "c">>>>],
   [field |-> "building_class",
    keywords |->
      <<<<"c", "l", "a", "s", "s">>,
        <<"b", "u", "i", "l", "d", "i", "n",
          "g", " ", "c", "l", "a", "s", "s">>,
        <<"b", "l", "d", "g", " ", "c", "l", "a", "s", "s">>>>],
   [field |-> "bedrooms",
    keywords |->
      <<<<"b", "e", "d">>, <<"b", "r">>,
        <<"b", "e", "d", "r", "o", "o", "m">>,
        <<"b", "e", "d", "r", "o", "o", "m", "s">>>>],
   [field |-> "bathrooms",
    keywords |->
      <<<<"b", "a", "t", "h">>, <<"b", "a", "t", "h", "r", "o", "o", "m">>,
        <<"b", "a">>, <<"f", "u", "l", "l", " ", "b", "a", "t", "h">>>>],
   [field |-> "half_baths",
    keywords |->
      <<<<"h", "a", "l", "f", " ", "b", "a", "t", "h">>,
        <<"h", "a", "l", "f">>, <<"p", "o", "w", "d", "e", "r">>>>],
   [field |-> "tax_amount",
    keywords |->
      <<<<"t", "a", "x">>, <<"t", "a", "x", "e", "s">>,
        <<"t", "a", "x", " ", "a", "m", "o", "u", "n", "t">>,
        <<"a", "n", "n", "u", "a", "l", " ", "t", "a", "x">>>>],
   [field |-> "homesteaded",
    keywords |->
      <<<<"h", "o", "m", "e", "s", "t", "e", "a", "d">>,
        <<"h", "o", "m", "e", "s", "t", "e", "a",
          "d", " ", "e", "x", "e", "m", "p", "t">>,
        <<"h", "o", "m", "e", "s", "t", "e", "a", "d", "e", "d">>>>],
   [field |-> "exemption_amount",
    keywords |->
      <<<<"e", "x", "e", "m", "p", "t">>,
        <<"e", "x", "e", "m", "p", "t", "i", "o", "n">>,
        <<"e", "x", "e", "m", "p", "t", " ", "a", "m", "o", "u", "n", "t">>>>]
  >>

\* field_keywords of PropertyExtractor._create_column_mapping, in iteration
\* order
field_keywords ==
  <<
   [field |-> "property_address",
    keywords |->
      <<<<"a", "d", "d", "r", "e", "s", "s">>,
        <<"l", "o", "c", "a", "t", "i", "o", "n">>,
        <<"s", "t", "r", "e", "e", "t">>,
        <<"p", "r", "o", "p", "e", "r", "t", "y",
          " ", "l", "o", "c", "a", "t", "i", "o", "n">>>>],
   [field |-> "owner_name",
    keywords |->
      <<<<"o", "w", "n", "e", "r">>, <<"n", "a", "m", "e">>,
        <<"t", "a", "x", "p", "a", "y", "e", "r">>>>],
   [field |-> "property_value",
    keywords |->
      <<<<"v", "a", "l", "u", "e">>,
        <<"a", "s", "s", "e", "s", "s", "m", "e", "n", "t">>,
        <<"a", "s", "s", "e", "s", "s", "e", "d">>,
        <<"a", "p", "p", "r", "a", "i", "s", "e", "d">>,
        <<"m", "a", "r", "k", "e", "t", " ", "v", "a", "l", "u", "e">>>>],
   [field |-> "square_footage",
    keywords |->
      <<<<"s", "q", "f", "t">>, <<"s", "q", " ", "f", "t">>,
        <<"s", "q", "u", "a", "r", "e">>,
        <<"f", "o", "o", "t", "a", "g", "e">>, <<"a", "r", "e", "a">>,
        <<"s", "i", "z", "e">>>>],
   [field |-> "parcel_id",
    keywords |->
      <<<<"p", "a", "r", "c", "e", "l">>, <<"i", "d">>,
        <<"a", "c", "c", "o", "u", "n", "t">>,
        <<"n", "u", "m", "b", "e", "r">>, <<"p", "c", "n">>>>],
   [field |-> "sale_price",
    keywords |->
      <<<<"s", "a", "l", "e">>, <<"s", "o", "l", "d">>,
        <<"p", "r", "i", "c", "e">>, <<"a", "m", "o", "u", "n", "t">>>>],
   [field |-> "sale_date",
    keywords |->
      <<<<"d", "a", "t", "e">>,
        <<"s", "o", "l", "d", " ", "d", "a", "t", "e">>,
        <<"s", "a", "l", "e", " ", "d", "a", "t", "e">>>>],
   [field |-> "year_built",
    keywords |->
      <<<<"y", "e", "a", "r", " ", "b", "u", "i", "l", "t">>,
        <<"b", "u", "i", "l", "t">>,
        <<"c", "o", "n", "s", "t", "r", "u", "c", "t", "i", "o", "n">>>>],
   [field |-> "property_type",
    keywords |->
      <<<<"t", "y", "p", "e">>, <<"u", "s", "e">>,
        <<"c", "l", "a", "s", "s", "i", "f",
          "i", "c", "a", "t", "i", "o", "n">>>>],
   [field |-> "municipality",
    keywords |->
      <<<<"c", "i", "t", "y">>,
        <<"m", "u", "n", "i", "c", "i", "p", "a", "l", "i", "t", "y">>,
        <<"j", "u", "r", "i", "s", "d", "i", "c", "t", "i", "o", "n">>>>],
   [field |-> "lot_size",
    keywords |->
      <<<<"l", "o", "t">>, <<"l", "a", "n", "d">>,
        <<"a", "c", "r", "e", "a", "g", "e">>>>],
   [field |-> "bedrooms",
    keywords |->
      <<<<"b", "e", "d">>, <<"b", "r">>,
        <<"b", "e", "d", "r", "o", "o", "m">>>>],
   [field |-> "bathrooms",
    keywords |->
      <<<<"b", "a", "t", "h">>, <<"b", "a", "t", "h", "r", "o", "o", "m">>,
        <<"b", "a">>>>],
   [field |-> "zoning",
    keywords |->
      <<<<"z", "o", "n", "e">>, <<"z", "o", "n", "i", "n", "g">>>>]
  >>

\* header texts a table can show
Header ==
  [OwnerAddress |-> <<"O", "w", "n", "e", "r", " ", "A", "d", "d", "r", "e",
                      "s", "s">>,
   SalePrice |-> <<"S", "a", "l", "e", " ", "P", "r", "i", "c", "e">>,
   Notes |-> <<"N", "o", "t", "e", "s">>]

HeaderTexts == {Header[k] : k \in DOMAIN Header}

\* the columns a table can have: the text of the header cell and the text
\* of the cell of the data row
Col ==
  [SalePrice |->
     [header |-> <<"S", "a", "l", "e", " ", "P", "r", "i", "c", "e">>,
      text |-> <<"$", "5", "0", "0", ",", "0", "0", "0">>],
   OwnerName |->
     [header |-> <<"O", "w", "n", "e", "r", " ", "N", "a", "m", "e">>,
      text |-> <<"J", "a", "n", "e", " ", "D", "o", "e">>],
   Location |->
     [header |-> <<"L", "o", "c", "a", "t", "i", "o", "n">>,
      text |-> <<"1", "2", "3", " ", "M", "a", "i", "n", " ", "S", "t">>],
   NotesPrice |->
     [header |-> <<"N", "o", "t", "e", "s">>,
      text |-> <<"$", "9">>],
   City |->
     [header |-> <<"C", "i", "t", "y">>,
      text |-> <<"J", "u", "p", "i", "t", "e", "r">>],
   NotesCity |->
     [header |-> <<"N", "o", "t", "e", "s">>,
      text |-> <<"P", "a", "l", "m", " ", "B", "e", "a", "c", "h">>],
   NotesArea |->
     [header |-> <<"N", "o", "t", "e", "s">>,
      text |-> <<"1", "5", "0", "0", ".", "5">>],
   SaleDate |->
     [header |-> <<"S", "a", "l", "e", " ", "D", "a", "t", "e">>,
      text |-> <<"0", "1", "/", "0", "2", "/", "2", "0", "2", "4">>]]

Columns == {Col[k] : k \in DOMAIN Col}

\* the keyword table of a mapper
KeywordTable(m) ==
  IF m = "papa" THEN papa_field_keywords ELSE field_keywords

\* no field: the column gets no entry
NoField == ""

RECURSIVE LastFieldFrom(_, _, _)
\* the loop over the table without its break: the last match stays
LastFieldFrom(table, k, header_lower) ==
  IF k > Len(table) THEN NoField
  ELSE LET later == LastFieldFrom(table, k + 1, header_lower)
       IN IF later # NoField THEN later
          ELSE IF AnyIn(header_lower, table[k].keywords)
               THEN table[k].field
               ELSE NoField

RECURSIVE FieldFrom(_, _, _)
\* "for field, keywords in table.items(): if any(...): mapping[col_idx] =
\* field; break", from entry k of the table on
FieldFrom(table, k, header_lower) ==
  IF k > Len(table) THEN NoField
  ELSE IF AnyIn(header_lower, table[k].keywords) THEN table[k].field
       ELSE FieldFrom(table, k + 1, header_lower)

\* what the inner loop finds for header.lower(), for each mapper and each
\* header text, those of the columns as the extractors read them
HeaderField ==
  [m \in {"papa", "results"} |->
     [h \in HeaderTexts \cup {Lower(Strip(c.header)) : c \in Columns} |->
        FieldFrom(KeywordTable(m), 1, Lower(h))]]

RECURSIVE MapColumns(_, _, _, _)
\* "for col_idx, header in enumerate(headers)", from column col on, with
\* "mapping[col_idx] = field" for a field found
MapColumns(m, hs, col, mapping) ==
  IF col > Len(hs) THEN mapping
  ELSE LET field == HeaderField[m][hs[col]]
       IN MapColumns(m, hs, col + 1,
                     IF field = NoField THEN mapping
                     ELSE [c \in DOMAIN mapping \cup {col} |->
                             IF c = col THEN field ELSE mapping[c]])

\* a dict that is still the one the last call returned
KeptMapping(previous) == previous

\* "mapping = {}" at the start of a call
FreshMapping(previous) == EmptyMapping

\* _create_papa_column_mapping(headers) / _create_column_mapping(headers)
CreateColumnMapping(m, hs, previous) ==
  MapColumns(m, hs, 1, FreshMapping(previous))

MapperInit ==
  /\ InitOn("long") /\ script = "multi"
  /\ Idle({"mapper"})
  /\ mapper \in {"papa", "results"}
  /\ headers = <<>>
  /\ column_mapping = EmptyMapping
  /\ calls = 0
  /\ first_headers = <<>>
  /\ first_mapping = EmptyMapping

\* one call of the mapper on the header row of a table
CreateMapping ==
  /\ mapper # "none"
  /\ calls < MaxCalls
  /\ \E hs \in UNION {[1..n -> HeaderTexts] : n \in 0..MaxHeaderCols} :
       /\ headers' = hs
       /\ column_mapping' = CreateColumnMapping(mapper, hs, column_mapping)
       /\ first_headers' = IF calls = 0 THEN hs ELSE first_headers
       /\ first_mapping' = IF calls = 0 THEN column_mapping'
                           ELSE first_mapping
  /\ calls' = calls + 1
  /\ UNCHANGED <<beside_mapper, mapper>>

MapperNext == CreateMapping

MapperSpec == MapperInit /\ [][MapperNext]_vars

(***************************************************************************)
(* Row extraction: MultiPageExtractor.extract_from_table and               *)
(* EnhancedPropertyExtractor.extract_from_papa_table on a table of one     *)
(* header row and one data row.  A first pass maps the cells by header     *)
(* (or by position when the first row has no cells), a second pass fills   *)
(* fields from the content of the cells, and a retention test decides      *)
(* whether the record is kept.                                             *)
(***************************************************************************)
\* most columns of the table
MaxCols == 3

\* str.upper()
Upper(s) ==
  [i \in 1..Len(s) |->
     IF s[i] \in Range(LowerCase) THEN UpperCase[IndexIn(s[i], LowerCase)]
     ELSE s[i]]

\* str.replace(c, '') for every character c of cs
Without(s, cs) == SelectSeq(s, LAMBDA c : c \notin cs)

\* str.isdigit(): non-empty and all digits
IsDigit(s) == s # <<>> /\ Range(s) \subseteq Range(Digits)

\* str.isalpha(): non-empty and all letters
IsAlpha(s) ==
  s # <<>> /\ Range(s) \subseteq (Range(UpperCase) \cup Range(LowerCase))

\* any(c.isdigit() for c in s)
AnyDigit(s) == Range(s) \cap Range(Digits) # {}

RECURSIVE Split(_, _)
\* str.split(): the maximal runs without blanks; cur is the run being read
Split(s, cur) ==
  IF s = <<>> THEN (IF cur = <<>> THEN <<>> ELSE <<cur>>)
  ELSE IF Head(s) = " "
       THEN (IF cur = <<>> THEN <<>> ELSE <<cur>>) \o Split(Tail(s), <<>>)
       ELSE Split(Tail(s), Append(cur, Head(s)))

RECURSIVE ToInt(_)
\* int() of a str of digits
ToInt(s) ==
  IF s = <<>> THEN 0
  ELSE 10 * ToInt(SubSeq(s, 1, Len(s) - 1)) + (IndexIn(s[Len(s)], Digits) - 1)

RECURSIVE Join(_)
\* the text of a row: the texts of its cells, separated by a blank
Join(texts) ==
  IF texts = <<>> THEN <<>>
  ELSE IF Len(texts) = 1 THEN texts[1]
  ELSE texts[1] \o <<" ">> \o Join(Tail(texts))

\* the data fields of PropertyRecord in multi-extract.py
MultiDataFields ==
  {"sale_price", "sale_date", "owner_name", "property_address",
   "municipality", "square_footage", "mail_address", "mail_city_state_zip",
   "homesteaded", "parcel_number", "property_value", "lot_size",
   "year_built", "property_type"}

\* the data fields of PropertyRecord in enhanced_property_extractor.py
EnhancedDataFields ==
  {"parcel_number", "property_address", "owner_name", "sale_price",
   "sale_date", "property_value", "assessed_value", "market_value",
   "taxable_value", "square_footage", "lot_size", "acres", "municipality",
   "zoning", "mail_address", "mail_city_state_zip", "homesteaded",
   "property_type", "property_use", "account_number", "folio_number",
   "deed_book", "year_built", "bedrooms", "bathrooms", "half_baths",
   "neighborhood", "subdivision", "land_use_code", "building_class",
   "tax_amount", "exemption_amount", "school_district", "additional_info"}

\* PropertyRecord(): every data field is the empty str
NewRecord(e) ==
  [f \in IF e = "multi" THEN MultiDataFields ELSE EnhancedDataFields |-> <<>>]

\* the guard "not record.<field>" of a content-based assignment
AlwaysUnset(rec, f) == TRUE

Unset(rec, f) == rec[f] = <<>>

(***************************************************************************)
(* multi-extract.py, extract_from_table.                                   *)
(***************************************************************************)
StreetKeywords ==
  <<<<"S", "T">>, <<"A", "V", "E">>, <<"B", "L", "V", "D">>, <<"R", "D">>,
    <<"L", "N">>, <<"C", "T">>, <<"D", "R">>, <<"W", "A", "Y">>,
    <<"P", "L">>>>
CityKeywords ==
  <<<<"P", "A", "L", "M", " ", "B", "E", "A", "C", "H">>,
    <<"W", "E", "S", "T", " ", "P", "A", "L", "M">>, <<"B", "O", "C", "A">>,
        <<"D", "E", "L", "R", "A", "Y">>,
            <<"B", "O", "Y", "N", "T", "O", "N">>,
    <<"W", "E", "L", "L", "I", "N", "G", "T", "O", "N">>,
        <<"J", "U", "P", "I", "T", "E", "R">>>>

\* the field the header-based elif chain assigns a non-empty cell to
HeaderTarget(header, text) ==
  IF AnyIn(header, <<<<"s", "a", "l", "e">>,
                     <<"p", "r", "i", "c", "e">>>>) /\ "$" \in Range(text)
    THEN "sale_price"
  ELSE IF /\ AnyIn(header, <<<<"s", "a", "l", "e">>, <<"d", "a", "t", "e">>>>)
          /\ ("/" \in Range(text) \/ "-" \in Range(text))
    THEN "sale_date"
  ELSE IF AnyIn(header, <<<<"o", "w", "n", "e", "r">>, <<"n", "a", "m", "e">>,
                          <<"t", "a", "x", "p", "a", "y", "e", "r">>>>)
    THEN "owner_name"
  ELSE IF AnyIn(header, <<<<"a", "d", "d", "r", "e", "s", "s">>,
                          <<"l", "o", "c", "a", "t", "i", "o", "n">>,
                              <<"p", "r", "o", "p", "e", "r", "t", "y">>>>)
    THEN "property_address"
  ELSE IF AnyIn(header,
                <<<<"m", "u", "n", "i", "c", "i", "p", "a", "l", "i", "t",
                    "y">>, <<"c", "i", "t", "y">>>>)
    THEN "municipality"
  ELSE IF AnyIn(header, <<<<"s", "q">>, <<"s", "q", "f", "t">>,
                          <<"f", "o", "o", "t", "a", "g", "e">>>>)
    THEN "square_footage"
  ELSE IF /\ AnyIn(header, <<<<"m", "a", "i", "l">>,
                             <<"m", "a", "i", "l", "i", "n", "g">>>>)
          /\ Contains(header, <<"a", "d", "d", "r", "e", "s", "s">>)
    THEN "mail_address"
  ELSE IF /\ AnyIn(header, <<<<"m", "a", "i", "l">>>>)
          /\ AnyIn(header, <<<<"c", "i", "t", "y">>,
                             <<"s", "t", "a", "t", "e">>, <<"z", "i", "p">>>>)
    THEN "mail_city_state_zip"
  ELSE IF AnyIn(header, <<<<"h", "o", "m", "e", "s", "t", "e", "a", "d">>>>)
    THEN "homesteaded"
  ELSE IF AnyIn(header, <<<<"p", "a", "r", "c", "e", "l">>,
                          <<"a", "c", "c", "o", "u", "n", "t">>>>)
    THEN "parcel_number"
  ELSE NoField

\* the field the position-based chain assigns the non-empty cell of column
\* i to (i counts from 1 here, from 0 in the code)
PositionTarget(i, text, rec) ==
  IF i = 1 THEN
    IF "$" \in Range(text) THEN "sale_price"
    ELSE IF AnyDigit(text) THEN "parcel_number"
    ELSE NoField
  ELSE IF i = 2 THEN
    IF \/ "/" \in Range(text) \/ "-" \in Range(text)
       \/ AnyIn(Lower(text),
                <<<<"j", "a", "n">>, <<"f", "e", "b">>, <<"m", "a", "r">>,
                  <<"a", "p", "r">>, <<"m", "a", "y">>, <<"j", "u", "n">>,
                  <<"j", "u", "l">>, <<"a", "u", "g">>, <<"s", "e", "p">>,
                      <<"o", "c", "t">>, <<"n", "o", "v">>,
                          <<"d", "e", "c">>>>)
      THEN "sale_date"
    ELSE IF "$" \in Range(text) /\ Unset(rec, "sale_price") THEN "sale_price"
    ELSE NoField
  ELSE IF i = 3 THEN
    IF /\ Len(text) > 3
       /\ ~IsDigit(Without(text, {" ", ",", "."}))
       /\ ~AnyIn(Upper(text), StreetKeywords)
      THEN "owner_name"
    ELSE NoField
  ELSE IF i = 4 THEN
    IF AnyIn(Upper(text), StreetKeywords) THEN "property_address"
    ELSE NoField
  ELSE IF i = 5 THEN
    IF Len(text) > 2 /\ IsAlpha(Without(text, {" "})) THEN "municipality"
    ELSE NoField
  ELSE IF i = 6 THEN
    IF IsDigit(Without(text, {",", "."})) THEN "square_footage"
    ELSE NoField
  ELSE NoField

\* record.<field> = text, nothing when no field was chosen
Assign(rec, f, text) == IF f = NoField THEN rec ELSE [rec EXCEPT ![f] = text]

RECURSIVE MapByHeader(_, _, _, _)
\* the header-based pass over zip(header_row, cell_texts), from column i
MapByHeader(header_row, cell_texts, i, rec) ==
  IF i > Len(header_row) \/ i > Len(cell_texts) THEN rec
  ELSE MapByHeader(header_row, cell_texts, i + 1,
         IF cell_texts[i] = <<>> THEN rec
         ELSE Assign(rec, HeaderTarget(header_row[i], cell_texts[i]),
                     cell_texts[i]))

RECURSIVE MapByPosition(_, _, _)
\* the position-based pass over cell_texts, from column i
MapByPosition(cell_texts, i, rec) ==
  IF i > Len(cell_texts) THEN rec
  ELSE MapByPosition(cell_texts, i + 1,
         IF cell_texts[i] = <<>> THEN rec
         ELSE Assign(rec, PositionTarget(i, cell_texts[i], rec),
                     cell_texts[i]))

\* the words of the text look like a person's name
LooksLikeName(text) ==
  LET words == Split(text, <<>>)
  IN /\ Len(words) >= 1
     /\ \A k \in 1..Len(words) : IsAlpha(Without(words[k], {",", "."}))
     /\ \E k \in 1..Len(words) : words[k][1] \in Range(UpperCase)

\* the outcome of the content-based elif chain on one non-empty cell: the
\* field it assigns, none, or the ValueError of int() on a str with a point
BackfillTarget(text, rec) ==
  IF "$" \in Range(text) /\ Unset(rec, "sale_price") THEN "sale_price"
  ELSE IF /\ Unset(rec, "owner_name")
          /\ Len(text) > 3
          /\ "$" \notin Range(text)
          /\ ~IsDigit(Without(text, {",", "."}))
          /\ ~AnyIn(Upper(text), StreetKeywords)
          /\ ~AnyIn(Upper(text), CityKeywords)
    THEN (IF LooksLikeName(text) THEN "owner_name" ELSE NoField)
  ELSE IF /\ AnyIn(Upper(text), StreetKeywords)
          /\ Unset(rec, "property_address")
    THEN "property_address"
  ELSE IF /\ IsAlpha(Without(text, {" ", "-"}))
          /\ Len(text) > 2
          /\ Unset(rec, "municipality")
          /\ text # rec["owner_name"]
          /\ ~AnyIn(Upper(text), SubSeq(StreetKeywords, 1, 7))
    THEN (IF \/ " " \in Range(text)
             \/ AnyIn(Upper(text), SubSeq(CityKeywords, 1, 5))
          THEN "municipality" ELSE NoField)
  ELSE IF IsDigit(Without(text, {",", "."}))
    THEN (IF "." \in Range(text) THEN "ValueError"
          ELSE IF /\ 500 <= ToInt(Without(text, {","}))
                  /\ ToInt(Without(text, {","})) <= 50000
                  /\ Unset(rec, "square_footage")
               THEN "square_footage"
               ELSE NoField)
  ELSE NoField

RECURSIVE BackfillCells(_, _, _)
\* the content-based pass over cell_texts, from column i: the record, and
\* whether a ValueError left the pass
BackfillCells(cell_texts, i, rec) ==
  IF i > Len(cell_texts) THEN [record |-> rec, raised |-> FALSE]
  ELSE IF cell_texts[i] = <<>> THEN BackfillCells(cell_texts, i + 1, rec)
  ELSE LET f == BackfillTarget(cell_texts[i], rec)
       IN IF f = "ValueError" THEN [record |-> rec, raised |-> TRUE]
          ELSE BackfillCells(cell_texts, i + 1,
                 Assign(rec, f,
                        IF f = "owner_name" THEN Strip(cell_texts[i])
                        ELSE cell_texts[i]))

(***************************************************************************)
(* enhanced_property_extractor.py, extract_from_papa_table.                *)
(***************************************************************************)
RECURSIVE Collapse(_)
\* re.sub(r'\s+', ' ', text): a run of blanks becomes one blank
Collapse(s) ==
  IF s = <<>> THEN <<>>
  ELSE IF Head(s) = " " THEN <<" ">> \o Collapse(LStrip(s))
  ELSE <<Head(s)>> \o Collapse(Tail(s))

RECURSIVE TrimLeft(_)
\* re.sub(r'^[:\-\s]+', '', text)
TrimLeft(s) ==
  IF s # <<>> /\ Head(s) \in {":", "-", " "} THEN TrimLeft(Tail(s)) ELSE s

RECURSIVE TrimRight(_)
\* re.sub(r'[:\-\s]+$', '', text)
TrimRight(s) ==
  IF s # <<>> /\ s[Len(s)] \in {":", "-", " "}
  THEN TrimRight(SubSeq(s, 1, Len(s) - 1)) ELSE s

RECURSIVE FixCurrency(_)
\* re.sub(r'\$\s*(\d)', r'$\1', text): no blanks between "$" and a digit
FixCurrency(s) ==
  IF s = <<>> THEN <<>>
  ELSE IF /\ Head(s) = "$"
          /\ LStrip(Tail(s)) # <<>>
          /\ Head(LStrip(Tail(s))) \in Range(Digits)
       THEN <<"$">> \o FixCurrency(LStrip(Tail(s)))
       ELSE <<Head(s)>> \o FixCurrency(Tail(s))

\* _clean_papa_text(text)
CleanPapaText(text) ==
  IF text = <<>> THEN <<>>
  ELSE FixCurrency(TrimRight(TrimLeft(Collapse(Strip(text)))))

\* an assignment that leaves a field alone once it has a value
SetAttrIfEmpty(rec, field, text) ==
  IF rec[field] = <<>> THEN [rec EXCEPT ![field] = text] ELSE rec

\* setattr(record, field_name, cell_text)
SetAttr(rec, field, text) == [rec EXCEPT ![field] = text]

RECURSIVE MapCells(_, _, _, _, _)
\* "for col_idx, cell in enumerate(cells)", from column col on
MapCells(cells, hs, mapping, col, rec) ==
  IF col > Len(cells) THEN rec
  ELSE MapCells(cells, hs, mapping, col + 1,
         IF col <= Len(hs) /\ col \in DOMAIN mapping
         THEN SetAttr(rec, mapping[col], CleanPapaText(cells[col]))
         ELSE rec)

\* the value a pattern group of _extract_papa_patterns stores on a match,
\* where the model does not compute the matched text: a non-empty str
Matched == <<"match">>

\* the text holds some ","
AnyComma(text) == "," \in Range(text)

\* some "," of the text follows a letter or a blank
CommaAfterWord(text) ==
  \E i \in 2..Len(text) :
    /\ text[i] = ","
    /\ text[i - 1] \in Range(UpperCase) \cup Range(LowerCase) \cup {" "}

\* a condition every text satisfies in which a pattern of the group of the
\* field has a match; patterns are searched with re.IGNORECASE
MayMatch(f, text) ==
  LET lower == Lower(text)
  IN IF f = "property_address"
       THEN /\ AnyDigit(text) /\ " " \in Range(text)
            /\ AnyIn(lower,
                     <<<<"s", "t">>, <<"a", "v", "e">>, <<"r", "d">>,
                       <<"d", "r">>, <<"l", "n">>, <<"c", "t">>,
                       <<"p", "l">>, <<"w", "a", "y">>,
                           <<"b", "l", "v", "d">>, <<"c", "i", "r">>,
                               <<"r", "o", "a", "d">>,
                       <<"l", "a", "n", "e">>, <<"c", "o", "u", "r", "t">>>>)
     ELSE IF f = "parcel_number"
       THEN \/ "-" \in Range(text) /\ AnyDigit(text)
            \/ AnyIn(lower, <<<<"p", "c", "n">>,
                              <<"p", "a", "r", "c", "e", "l">>>>)
     ELSE IF f = "property_value"
       THEN /\ "$" \in Range(text)
            /\ AnyIn(lower,
                     <<<<"j", "u", "s", "t", " ", "v", "a", "l", "u", "e">>,
                       <<"m", "a", "r", "k", "e", "t", " ", "v", "a", "l",
                         "u", "e">>,
                             <<"t", "o", "t", "a", "l", " ", "v", "a", "l",
                               "u", "e">>>>)
     ELSE IF f = "acres"
       THEN AnyDigit(text) /\ AnyIn(lower, <<<<"a", "c", "r", "e">>,
                                             <<" ", "a", "c">>>>)
     ELSE IF f = "mail_city_state_zip"
       THEN AnyDigit(text) /\ CommaAfterWord(text)
     ELSE IF f = "homesteaded"
       THEN Contains(lower, <<"h", "o", "m", "e", "s", "t", "e", "a", "d">>)
     ELSE IF f = "lot_size"
       THEN AnyDigit(text) /\ AnyIn(lower,
                                    <<<<"l", "a", "n", "d", " ", "a", "r",
                                        "e", "a">>, <<"l", "o", "t">>>>)
     ELSE FALSE

\* what a pattern group leaves in its field when the field was empty
Found(f, text) ==
  IF f = "municipality"
    THEN (IF Contains(Lower(text),
                      <<"p", "a", "l", "m", " ", "b", "e", "a", "c", "h">>)
          THEN {<<"P", "a", "l", "m", " ", "B", "e", "a", "c", "h">>}
          ELSE {<<>>})
  ELSE IF ~MayMatch(f, text) THEN {<<>>}
  ELSE IF f = "homesteaded" THEN {<<>>, <<"Y", "e", "s">>, <<"N", "o">>}
  ELSE {<<>>, Matched}

RECURSIVE ExtractPapaPatterns(_, _, _)
\* _extract_papa_patterns(text, record), from pattern group k on: the
\* records it can leave
ExtractPapaPatterns(text, rec, k) ==
  LET fields == <<"property_address", "parcel_number", "property_value",
                  "municipality", "acres", "mail_city_state_zip",
                  "homesteaded", "lot_size">>
  IN IF k > Len(fields) THEN {rec}
     ELSE LET f == fields[k]
          IN IF Unset(rec, f)
             THEN UNION {ExtractPapaPatterns(text, [rec EXCEPT ![f] = v],
                                             k + 1) : v \in Found(f, text)}
             ELSE ExtractPapaPatterns(text, rec, k + 1)

(***************************************************************************)
(* The extraction of the data row, in three steps.                         *)
(***************************************************************************)
\* the texts of the cells of the data row
Cells == [i \in 1..Len(columns) |-> columns[i].text]

\* [cell.text.strip() for cell in cells]
CellTexts == [i \in 1..Len(Cells) |-> Strip(Cells[i])]

\* [cell.text.strip().lower() for cell in header_cells]; the first row has
\* no cells when the table is not headed
HeaderRow ==
  IF headed
  THEN [i \in 1..Len(columns) |-> Lower(Strip(columns[i].header))]
  ELSE <<>>

RowInit ==
  /\ InitOn("long") /\ script = "multi"
  /\ Idle({"row"})
  /\ extractor \in {"multi", "enhanced"}
  /\ headed \in BOOLEAN
  /\ columns \in UNION {[1..n -> Columns] : n \in 1..MaxCols}
  /\ stage = "row"
  /\ record = NoRecord
  /\ header_record = NoRecord
  /\ records = <<>>

\* the first pass over the cells of the row: by header, or by position when
\* the first row has no cells
MapRow ==
  /\ stage = "row"
  /\ IF extractor = "multi" /\ Len(Cells) < 3
     THEN /\ stage' = "done"
          /\ UNCHANGED <<record, header_record>>
     ELSE /\ record' =
               IF extractor = "multi"
               THEN (IF HeaderRow # <<>>
                     THEN MapByHeader(HeaderRow, CellTexts, 1,
                                      NewRecord("multi"))
                     ELSE MapByPosition(CellTexts, 1, NewRecord("multi")))
               ELSE MapCells(Cells, HeaderRow,
                             CreateColumnMapping("papa", HeaderRow,
                                                 EmptyMapping),
                             1, NewRecord("enhanced"))
          /\ header_record' = record'
          /\ stage' = "mapped"
  /\ UNCHANGED <<beside_row, extractor, headed, columns,
                 records>>

\* the second pass: fields still empty are filled from the content of the
\* cells (multi) or from patterns in the text of the row (enhanced)
BackfillRow ==
  /\ stage = "mapped"
  /\ IF extractor = "multi"
     THEN LET pass == BackfillCells(CellTexts, 1, record)
          IN /\ record' = pass.record
             /\ stage' = IF pass.raised THEN "raised" ELSE "filled"
     ELSE /\ record' \in ExtractPapaPatterns(Join(Cells), record, 1)
          /\ stage' = "filled"
  /\ UNCHANGED <<beside_row, extractor, headed, columns,
                 header_record, records>>

\* the retention test: the record is appended or dropped
RetainRow ==
  /\ stage = "filled"
  /\ records' =
       IF (IF extractor = "multi" THEN HasCoreData(record)
           ELSE Identifying(record))
       THEN Append(records, record)
       ELSE records
  /\ stage' = "done"
  /\ UNCHANGED <<beside_row, extractor, headed, columns,
                 record, header_record>>

RowNext == MapRow \/ BackfillRow \/ RetainRow

RowSpec == RowInit /\ [][RowNext]_vars

(***************************************************************************)
(* The extraction of one rendered page:                                    *)
(*   "enhanced"  analyze_papa_page_structure and extract_all_papa_data     *)
(*               (src/enhanced_property_extractor.py)                      *)
(*   "multi"     extract_current_page_data (src/originals/multi-extract.py)*)
(* A rendered page is its tables in document order, the elements its       *)
(* result-row selectors match, and its text.                               *)
(***************************************************************************)
\* most tables of a page
MaxTables == 2
\* most rows (tr) of a table
MaxTableRows == 3
\* most elements the result-row selectors match
MaxElements == 2

\* a table is its number of rows, whether its text holds one of the
\* keywords of the analysis, and whether its data rows pass the retention
\* test; a page is its tables, the number of elements the result-row
\* selectors match, and whether these elements pass the retention test
Renders ==
  LET shapes ==
        {t \in [rows : 0..MaxTableRows, keyword : BOOLEAN, kept : BOOLEAN] :
           t.kept => t.rows >= 1}
  IN {r \in [tables : UNION {[1..n -> shapes] : n \in 0..MaxTables},
              elements : 0..MaxElements, kept : BOOLEAN] :
        r.kept => r.elements >= 1}

RECURSIVE RowCount(_)
\* the number of rows (tr) of the tables of a page
RowCount(tables) ==
  IF tables = <<>> THEN 0 ELSE Head(tables).rows + RowCount(Tail(tables))

\* rows 1 to n of a source (a table, the result rows, the text) as records
RowsOf(source, index, first, last) ==
  [j \in 1..(last - first + 1) |->
     [from |-> source, index |-> index, row |-> first + j - 1]]

\* analyze_papa_page_structure: "len(rows) > 1" and a keyword in table.text
Qualifies(t) == t.rows > 1 /\ t.keyword

\* analysis['tables']: the indices of the qualifying tables, in document
\* order
AnalysisTables(tables) ==
  SelectSeq([i \in 1..Len(tables) |-> i], LAMBDA i : Qualifies(tables[i]))

\* analysis['structure_type']; result_rows is the number of elements found
StructureType(analysis_tbls, result_rows) ==
  IF analysis_tbls # <<>> THEN "table"
  ELSE IF result_rows # 0 THEN "rows"
  ELSE "text_based"

\* extract_from_papa_table of table i: nothing from a table of fewer than 2
\* rows, else the retained data rows
PapaTableRecords(t, i) ==
  IF t.rows < 2 \/ ~t.kept THEN <<>> ELSE RowsOf("table", i, 2, t.rows)

\* extract_from_table of table i: "data_rows = rows[1:] if len(rows) > 1
\* else rows", and the retained ones of them
MultiTableRecords(t, i) ==
  IF ~t.kept THEN <<>>
  ELSE IF t.rows > 1 THEN RowsOf("table", i, 2, t.rows)
  ELSE RowsOf("table", i, 1, t.rows)

RECURSIVE ExtendAll(_, _, _, _)
\* "for table in ...: records.extend(extract(table))" over the tables whose
\* indices are order[k..]
ExtendAll(e, tables, order, k) ==
  IF k > Len(order) THEN <<>>
  ELSE (IF e = "multi" THEN MultiTableRecords(tables[order[k]], order[k])
        ELSE PapaTableRecords(tables[order[k]], order[k]))
       \o ExtendAll(e, tables, order, k + 1)

\* find_result_rows: the elements of a selector count when there are more
\* than one
FindResultRows(n) == IF n > 1 THEN n ELSE 0

\* the records of n result rows; the retained rows of a page differ in
\* their keys, so that _remove_duplicates keeps them all
ElementRecords(r, n) ==
  IF r.kept THEN RowsOf("rows", 0, 1, n) ELSE <<>>

\* the records the text fallback can return
TextOutcomes == {<<>>, RowsOf("text", 0, 1, 1)}

\* the result rows of the enhanced extractor are rows (tr) of the tables
PageInit ==
  /\ InitOn("long") /\ script = "multi"
  /\ Idle({"page"})
  /\ engine \in {"multi", "enhanced"}
  /\ render \in Renders
  /\ engine = "enhanced" => render.elements <= RowCount(render.tables)
  /\ phase = IF engine = "multi" THEN "wait" ELSE "start"
  /\ structure_type = "unknown"
  /\ analysis_tables = <<>>
  /\ tried = <<>>
  /\ extracted = <<>>
  /\ load_waits = <<>>

\* "self.wait_for_page_load()" at the head of extract_current_page_data:
\* one WebDriverWait of 10 seconds; the method goes on whatever the answer
PageWait ==
  /\ engine = "multi" /\ phase = "wait"
  /\ \E complete \in BOOLEAN :
       load_waits' = Append(load_waits, WaitForPageLoad(complete))
  /\ phase' = "start"
  /\ UNCHANGED <<beside_page, engine, render, structure_type,
                 analysis_tables, tried, extracted>>

\* analyze_papa_page_structure(); an exception of the driver leaves
\* structure_type 'unknown' and the tables found so far
AnalyzePage ==
  /\ engine = "enhanced" /\ phase = "start"
  /\ \E raised \in BOOLEAN :
       LET found == AnalysisTables(render.tables)
       IN IF raised
          THEN /\ \E k \in 0..Len(found) :
                    analysis_tables' = SubSeq(found, 1, k)
               /\ structure_type' = "unknown"
          ELSE /\ analysis_tables' = found
               /\ structure_type' = StructureType(found, render.elements)
  /\ phase' = "analysed"
  /\ UNCHANGED <<beside_page, engine, render, tried, extracted, load_waits>>

\* extract_all_papa_data() after the analysis: the tables of the analysis,
\* or the result rows, or the text
ExtractAllPapaData ==
  /\ engine = "enhanced" /\ phase = "analysed"
  /\ IF structure_type = "table"
     THEN /\ extracted' = ExtendAll("enhanced", render.tables,
                                    analysis_tables, 1)
          /\ tried' = <<"table">>
     ELSE IF structure_type = "rows"
     THEN /\ extracted' = ElementRecords(render, render.elements)
          /\ tried' = <<"rows">>
     ELSE /\ extracted' \in TextOutcomes
          /\ tried' = <<"text">>
  /\ phase' = "done"
  /\ UNCHANGED <<beside_page, engine, render, structure_type,
                 analysis_tables, load_waits>>

\* extract_current_page_data(): every table of the page is extracted; an
\* exception returns []
PageTables ==
  /\ engine = "multi" /\ phase = "start"
  /\ \E raised \in BOOLEAN :
       IF raised
       THEN /\ extracted' = <<>>
            /\ tried' = <<>>
            /\ phase' = "failed"
       ELSE /\ extracted' =
                 ExtendAll("multi", render.tables,
                           [i \in 1..Len(render.tables) |-> i], 1)
            /\ tried' = IF render.tables # <<>> THEN <<"table">> ELSE <<>>
            /\ phase' = IF extracted' = <<>> THEN "find_rows" ELSE "done"
  /\ UNCHANGED <<beside_page, engine, render, structure_type,
                 analysis_tables, load_waits>>

\* "if not records: result_rows = self.find_result_rows() ..."
PageRows ==
  /\ engine = "multi" /\ phase = "find_rows"
  /\ LET result_rows == FindResultRows(render.elements)
     IN /\ extracted' = IF result_rows # 0
                        THEN ElementRecords(render, result_rows)
                        ELSE extracted
        /\ tried' = IF result_rows # 0 THEN Append(tried, "rows") ELSE tried
  /\ phase' = IF extracted' = <<>> THEN "text" ELSE "done"
  /\ UNCHANGED <<beside_page, engine, render, structure_type,
                 analysis_tables, load_waits>>

\* "if not records: records = self.extract_from_text(page_number)"
PageText ==
  /\ engine = "multi" /\ phase = "text"
  /\ extracted' \in TextOutcomes
  /\ tried' = Append(tried, "text")
  /\ phase' = "done"
  /\ UNCHANGED <<beside_page, engine, render, structure_type,
                 analysis_tables, load_waits>>

PageNext ==
  \/ PageWait
  \/ AnalyzePage
  \/ ExtractAllPapaData
  \/ PageTables
  \/ PageRows
  \/ PageText

PageSpec == PageInit /\ [][PageNext]_vars

(***************************************************************************)
(* The loops over the rows of a table and over the result elements of a    *)
(* page: MultiPageExtractor.extract_from_table and extract_from_rows       *)
(* (src/originals/multi-extract.py) and                                    *)
(* EnhancedPropertyExtractor.extract_from_papa_table.  What matters here   *)
(* is where an exception of the body of the loop is caught, so an item is  *)
(* what the body does on it:                                               *)
(*   "record"   the record of the item passes the retention test           *)
(*   "dropped"  too few cells, or the record fails the retention test      *)
(*   "error"    the body raises: a stale element, or the ValueError of     *)
(*              int() on a cell like 1500.5 (stage "raised" of the row)    *)
(***************************************************************************)
\* most items of a page
MaxItems == 3

ItemOutcomes == {"record", "dropped", "error"}

ItemsInit ==
  /\ InitOn("long") /\ script = "multi"
  /\ Idle({"items"})
  /\ method \in {"extract_from_table", "extract_from_rows",
                 "extract_from_papa_table"}
  /\ items \in UNION {[1..n -> ItemOutcomes] : n \in 0..MaxItems}
  /\ item_idx = 1
  /\ item_stage = "loop"
  /\ item_records = <<>>

\* the body of "for row_idx, row in enumerate(...)" on the item the loop
\* is at, for an item that does not raise: records.append(record) when the
\* record is retained
ItemBody ==
  /\ item_stage = "loop" /\ item_idx <= Len(items)
  /\ items[item_idx] # "error"
  /\ item_records' = IF items[item_idx] = "record"
                     THEN Append(item_records, item_idx)
                     ELSE item_records
  /\ item_idx' = item_idx + 1
  /\ UNCHANGED <<beside_items, method, items, item_stage>>

\* extract_from_rows: the try is inside the loop, "except Exception:
\* continue"
ItemErrorInLoop ==
  /\ method = "extract_from_rows"
  /\ item_stage = "loop" /\ item_idx <= Len(items)
  /\ items[item_idx] = "error"
  /\ item_idx' = item_idx + 1
  /\ UNCHANGED <<beside_items, method, items, item_stage, item_records>>

\* extract_from_table and extract_from_papa_table: the try is around the
\* loop; the handler logs and the method returns the records so far
ItemErrorOutsideLoop ==
  /\ method \in {"extract_from_table", "extract_from_papa_table"}
  /\ item_stage = "loop" /\ item_idx <= Len(items)
  /\ items[item_idx] = "error"
  /\ item_stage' = "done"
  /\ UNCHANGED <<beside_items, method, items, item_idx, item_records>>

\* the loop is over: return records
ReturnItems ==
  /\ item_stage = "loop" /\ item_idx > Len(items)
  /\ item_stage' = "done"
  /\ UNCHANGED <<beside_items, method, items, item_idx, item_records>>

ItemsNext ==
  ItemBody \/ ItemErrorInLoop \/ ItemErrorOutsideLoop \/ ReturnItems

ItemsSpec == ItemsInit /\ [][ItemsNext]_vars

(***************************************************************************)
(* Duplicate removal on records whose key fields differ in letter case and *)
(* surrounding whitespace: EnhancedPropertyExtractor._remove_duplicates    *)
(* and PropertyExtractor._remove_duplicates, one iteration of the loop at  *)
(* a time.                                                                 *)
(***************************************************************************)
\* most records handed to _remove_duplicates
MaxDedup == 2

\* the records: every key field empty, plain, or in another letter case
\* (the address also with a trailing blank)
DedupRecords ==
  {[PropertyRecord EXCEPT !.property_address = a, !.parcel_number = p,
                          !.owner_name = o] :
     a \in {<<>>, <<"a">>, <<"A", " ">>},
     p \in {<<>>, <<"p">>, <<"P">>},
     o \in {<<>>, <<"o">>, <<"O">>}}

\* key_parts of EnhancedPropertyExtractor._remove_duplicates
EnhancedKey(r) ==
  <<Strip(Lower(r.property_address)), Strip(r.parcel_number),
    Strip(Lower(r.owner_name))>>

RECURSIVE JoinKey(_)
\* "|".join(key_parts), and the f-string of PropertyExtractor
JoinKey(parts) ==
  IF Len(parts) = 1 THEN parts[1]
  ELSE parts[1] \o <<"|">> \o JoinKey(Tail(parts))

DedupInit ==
  /\ InitOn("long") /\ script = "multi"
  /\ Idle({"dedup"})
  /\ deduper \in {"enhanced", "results"}
  /\ dedup_records \in UNION {[1..n -> DedupRecords] : n \in 0..MaxDedup}
  /\ dedup_idx = 1
  /\ seen = {}
  /\ unique_records = <<>>

\* one iteration of "for record in records": the key, the test "key not in
\* seen and any(key_parts)" (enhanced) or "key not in seen and
\* (record.property_address or record.parcel_id)" (results)
DedupRecord ==
  /\ deduper # "none" /\ dedup_idx <= Len(dedup_records)
  /\ LET r == dedup_records[dedup_idx]
         key == JoinKey(IF deduper = "enhanced" THEN EnhancedKey(r)
                        ELSE ResultsKey(r))
         any == IF deduper = "enhanced"
                THEN \E k \in 1..3 : Truthy(EnhancedKey(r)[k])
                ELSE Truthy(r.property_address) \/ Truthy(r.parcel_number)
     IN IF key \notin seen /\ any
        THEN /\ seen' = seen \cup {key}
             /\ unique_records' = Append(unique_records, r)
        ELSE UNCHANGED <<seen, unique_records>>
  /\ dedup_idx' = dedup_idx + 1
  /\ UNCHANGED <<beside_dedup, deduper, dedup_records>>

DedupNext == DedupRecord

DedupSpec == DedupInit /\ [][DedupNext]_vars

(***************************************************************************)
(* The orchestration scripts:                                              *)
(*   "automated"  AutomatedPropertyExtraction.run_automated_extraction     *)
(*                (src/automated_property_extraction.py): launch the       *)
(*                search, wait for the search process, wait for the        *)
(*                results page, launch the extraction                      *)
(*   "auto"       AutomatedPropertyExtraction.run (src/auto-extract.py):   *)
(*                headless search, verify_page_ready, headless extraction  *)
(* The search process, the browser and the clock are the environment.  The *)
(* clock is read as "time is up" or not at each test of the polling loop.  *)
(***************************************************************************)
\* most checks of the results page before the timeout is up
MaxChecks == 5

\* required_stable_checks of wait_for_results_page_ready
RequiredStableChecks == 3

\* max_attempts of verify_page_ready
MaxAttempts == 5

\* what a check of wait_for_results_page_ready can find
ReadyOutcomes == {"loaded", "not_loaded", "no_connection", "exception"}

\* what an attempt of verify_page_ready can find
VerifyOutcomes == {"data", "no_data", "exception"}

\* a counter that a failed check leaves as it is
KeepStableCount(count, outcome) ==
  IF outcome = "loaded" THEN count + 1 ELSE count

\* stable_results_count after a check: += 1 when the browser is connected
\* and is_results_page_loaded(), = 0 in the two else branches and in the
\* except branch
NextStableCount(count, outcome) ==
  IF outcome = "loaded" THEN count + 1 ELSE 0

\* a loop that makes one attempt more
InRangeLoose(a) == a <= MaxAttempts + 1

\* "for attempt in range(1, max_attempts + 1)"
InRange(a) == a <= MaxAttempts

PipelineInit ==
  /\ InitOn("long") /\ script = "multi"
  /\ Idle({"pipeline"})
  /\ pipeline \in {"automated", "auto"}
  /\ step = "search"
  /\ search_process = "none"
  /\ stable_results_count = 0
  /\ attempt = 1
  /\ ready = "none"
  /\ success = FALSE
  /\ checks = <<>>
  /\ started = <<>>
  /\ halted = "none"
  /\ cleaned = FALSE

\* "if not self.launch_property_search(): return False"; Popen raises when
\* the script is not there
LaunchPropertySearch ==
  /\ pipeline = "automated" /\ step = "search"
  /\ \E launched \in BOOLEAN :
       /\ search_process' = IF launched THEN "running" ELSE "none"
       /\ step' = IF launched THEN "wait_search" ELSE "cleanup"
  /\ started' = Append(started, "search")
  /\ UNCHANGED <<beside_pipeline, pipeline, stable_results_count, attempt,
                 ready, success, checks, halted, cleaned>>

\* wait_for_search_completion(timeout_minutes=3): the process ends with a
\* return code, or the 3 minutes are up and the process is terminated;
\* True only for "return_code == 0"
WaitForSearchCompletion ==
  /\ pipeline = "automated" /\ step = "wait_search"
  /\ search_process' \in {"exited_0", "exited_1", "terminated"}
  /\ step' = IF search_process' = "exited_0" THEN "ready" ELSE "cleanup"
  /\ started' = Append(started, "wait_search")
  /\ UNCHANGED <<beside_pipeline, pipeline, stable_results_count, attempt,
                 ready, success, checks, halted, cleaned>>

\* wait_for_results_page_ready(timeout_minutes=2): the test of the while
\* loop and one check of the results page
WaitForResultsPageReady ==
  /\ pipeline = "automated" /\ step = "ready"
  /\ \E expired \in BOOLEAN :
       /\ Len(checks) >= MaxChecks => expired
       /\ IF expired
          THEN /\ ready' = "false"
               /\ step' = "cleanup"
               /\ UNCHANGED <<stable_results_count, checks>>
          ELSE \E outcome \in ReadyOutcomes :
                 /\ checks' = Append(checks, outcome)
                 /\ stable_results_count' =
                      NextStableCount(stable_results_count, outcome)
                 /\ IF stable_results_count' >= RequiredStableChecks
                    THEN ready' = "true" /\ step' = "extract"
                    ELSE UNCHANGED <<ready, step>>
  /\ UNCHANGED <<beside_pipeline, pipeline, search_process, attempt, success,
                 started, halted, cleaned>>

\* launch_data_extraction(): the search process is terminated if it still
\* runs, multi_page_extractor.py is run and its return code tested;
\* "success = True" follows
LaunchDataExtraction ==
  /\ pipeline = "automated" /\ step = "extract"
  /\ search_process' = IF search_process = "running" THEN "terminated"
                       ELSE search_process
  /\ started' = Append(started, "extraction")
  /\ success' \in BOOLEAN
  /\ step' = "cleanup"
  /\ UNCHANGED <<beside_pipeline, pipeline, stable_results_count, attempt,
                 ready, checks, halted, cleaned>>

\* run_headless_search(): subprocess.run of the search script with a
\* timeout of 180 seconds.  True when the script returned 0 and the browser
\* could be connected to, and also when the script timed out and the
\* browser could be connected to
RunHeadlessSearch ==
  /\ pipeline = "auto" /\ step = "search"
  /\ \E connected \in BOOLEAN :
       /\ search_process' \in {"exited_0", "exited_1", "timed_out"}
       /\ step' = IF search_process' # "exited_1" /\ connected
                  THEN "verify" ELSE "cleanup"
  /\ started' = Append(started, "search")
  /\ UNCHANGED <<beside_pipeline, pipeline, stable_results_count, attempt,
                 ready, success, checks, halted, cleaned>>

\* verify_page_ready(): the test of the for loop and one attempt; an
\* exception of the attempt is caught in the loop
VerifyPageReady ==
  /\ pipeline = "auto" /\ step = "verify"
  /\ IF InRange(attempt)
     THEN \E outcome \in VerifyOutcomes :
            /\ checks' = Append(checks, outcome)
            /\ IF outcome = "data"
               THEN ready' = "true" /\ step' = "extract" /\ UNCHANGED attempt
               ELSE attempt' = attempt + 1 /\ UNCHANGED <<ready, step>>
     ELSE /\ ready' = "false"
          /\ step' = "cleanup"
          /\ UNCHANGED <<attempt, checks>>
  /\ UNCHANGED <<beside_pipeline, pipeline, search_process,
                 stable_results_count, success, started, halted, cleaned>>

\* "if not self.run_headless_extraction(): return False", else return True
RunHeadlessExtraction ==
  /\ pipeline = "auto" /\ step = "extract"
  /\ started' = Append(started, "extraction")
  /\ success' \in BOOLEAN
  /\ step' = "cleanup"
  /\ UNCHANGED <<beside_pipeline, pipeline, search_process,
                 stable_results_count, attempt, ready, checks, halted,
                 cleaned>>

\* a KeyboardInterrupt or an exception no step catches, inside the try of
\* the run method: the handler prints and the finally clause follows
PipelineInterrupt ==
  /\ step \in {"search", "wait_search", "ready", "verify", "extract"}
  /\ halted' \in {"interrupt", "error"}
  /\ step' = "cleanup"
  /\ UNCHANGED <<beside_pipeline, pipeline, search_process,
                 stable_results_count, attempt, ready, success, checks,
                 started, cleaned>>

\* "finally: self.cleanup()" and the return of the run method; cleanup of
\* automated_property_extraction.py terminates a search process that still
\* runs
PipelineCleanup ==
  /\ step = "cleanup"
  /\ search_process' = IF search_process = "running" THEN "terminated"
                       ELSE search_process
  /\ cleaned' = TRUE
  /\ step' = "done"
  /\ UNCHANGED <<beside_pipeline, pipeline, stable_results_count, attempt,
                 ready, success, checks, started, halted>>

PipelineNext ==
  \/ LaunchPropertySearch
  \/ WaitForSearchCompletion
  \/ WaitForResultsPageReady
  \/ LaunchDataExtraction
  \/ RunHeadlessSearch
  \/ VerifyPageReady
  \/ RunHeadlessExtraction
  \/ PipelineInterrupt
  \/ PipelineCleanup

PipelineSpec == PipelineInit /\ [][PipelineNext]_vars

(***************************************************************************)
(* Properties.                                                             *)
(***************************************************************************)
\* the run has left the loop
Terminated == pc \in {"save", "cleanup", "partial_save", "r_export", "done"}

\* the run went on without a KeyboardInterrupt or an escaping exception
Undisturbed == ~interrupted /\ reason # "fatal_error"

\* pages 1, 2 and 3 were extracted first, in that order, each with a record,
\* with a detected total of 3
ThreePagesWithRecords ==
  /\ script \in {"multi", "auto"}
  /\ total_pages = 3
  /\ Len(visited) >= 3
  /\ \A i \in 1..3 : visited[i].page = i /\ visited[i].n >= 1

\* C1: with total_pages = 3, start page 1 and a record on each of the pages
\* 1, 2, 3, an undisturbed traversal extracts exactly the pages 1, 2, 3 once
\* each in that order, never looks for a next page on page 3, and leaves the
\* loop with reached_known_total while current_page = 3.
C1_ReachedKnownTotalAtThree ==
  (ThreePagesWithRecords /\ Undisturbed) =>
    /\ Len(visited) = 3
    /\ 3 \notin navPages
    /\ current_page = 3 /\ page_number = 3
    /\ pc \in {"check_total", "save", "cleanup", "done"}
    /\ pc # "check_total" => reason = "reached_known_total"

C1_Witness ==
  /\ ThreePagesWithRecords /\ Undisturbed
  /\ pc = "done" /\ reason = "reached_known_total"
  /\ navPages = {1, 2}

\* C2: once three pages in a row have yielded no record, the third empty
\* page is the last page extracted, no next page is sought on it, and an
\* undisturbed loop terminates with three_consecutive_empty_pages.
C2_ThreeEmptyPagesTerminate ==
  \A i \in 1..Len(visited) :
    (/\ i + 2 <= Len(visited)
     /\ \A j \in i..(i + 2) : visited[j].n = 0
     /\ Undisturbed) =>
      /\ Len(visited) = i + 2
      /\ visited[i + 2].page \notin navPages
      /\ Terminated => reason = "three_consecutive_empty_pages"

\* C3: a next page is sought only after the three termination checks have
\* all failed: fewer than 3 empty pages in a row, known total not reached,
\* page cap not reached; no next page is ever sought on the cap page.
C3_ChecksBeforeAdvance ==
  script \in {"multi", "auto"} =>
    /\ pc = "navigate" =>
         /\ consecutive_empty_pages < EmptyLimit
         /\ ~ReachedKnownTotal(total_pages, page_number)
         /\ page_number < max_pages
    /\ \A p \in navPages : p < max_pages

\* C4: the accumulated records never hold two records with the same
\* non-empty (address, parcel, owner) key.
C4_NoDuplicateKeys ==
  \A i, j \in 1..Len(all_records) :
    (i < j /\ EnhancedKey(all_records[i]) = EnhancedKey(all_records[j])) =>
      EnhancedKey(all_records[i]) = <<<<>>, <<>>, <<>>>>

\* C5: every record a page extraction returns and every accumulated record
\* has a non-empty address, owner name or parcel number.
C5_RetentionInvariant ==
  /\ \A i \in 1..Len(page_records) : Identifying(page_records[i])
  /\ \A i \in 1..Len(all_records) : Identifying(all_records[i])

\* C6: after an interrupt the run is terminated with user_interrupt, no
\* further page is extracted, the accumulated records are those held at the
\* interrupt, and when there are any the final file was written with them.
C6_InterruptTerminates ==
  interrupted =>
    /\ Terminated
    /\ reason = "user_interrupt"
    /\ Len(visited) = atInterrupt.visits
    /\ all_records = atInterrupt.records
    /\ (pc = "done" /\ atInterrupt.records # <<>>) =>
         /\ final_file.state # "none"
         /\ final_file.state = "ok" =>
              final_file.content = atInterrupt.records

\* C7: a run that ends with accumulated records has attempted a final or
\* partial write, and a write that succeeded holds all of them.
C7_FinalWriteAttempted ==
  (pc = "done" /\ all_records # <<>>) =>
    /\ final_file.state # "none"
    /\ final_file.state = "ok" => final_file.content = all_records

\* C8: in run_headless_extraction a backup of the accumulated records is
\* attempted after every page whose number is a multiple of 5, whether or
\* not that page yielded records.
C8_SnapshotEveryFivePages ==
  script = "auto" =>
    \A i \in 1..Len(visited) :
      (visited[i].page % BackupEvery = 0 /\ pc # "backup") =>
        visited[i].page \in snapshots

\* C9: backup files are deleted only when the final file was written
\* successfully with all accumulated records.
C9_BackupsRemovedAfterSuccess ==
  removed # {} =>
    final_file.state = "ok" /\ final_file.content = all_records

\* C10: a search for the next page activates exactly the first displayed
\* and enabled element; when there is none nothing is activated, the page
\* number stays and an undisturbed run ends with no_next_affordance.
C10_FirstVisibleEnabledActivated ==
  nav.page # 0 =>
    IF nav.first # 0
    THEN nav.attempted = <<nav.first>>
    ELSE /\ nav.attempted = <<>>
         /\ ~nav.found
         /\ page_number = nav.page
         /\ Undisturbed => reason = "no_next_affordance"


\* C11: page_number and current_page are incremented after a click only
\* when the wait for the document that followed the click reported it
\* loaded; never after a wait that timed out.
C11_SettleBeforeIncrement ==
  [][(pc = "advance" /\ page_number' = page_number + 1) => nav.loaded]_vars

\* every page extracted so far yielded a record and the run did not end for
\* want of a next page (no affordance, click error, no pagination at all)
AlwaysRecordsAndNext ==
  /\ visited # <<>>
  /\ \A i \in 1..Len(visited) : visited[i].n >= 1
  /\ reason \notin {"none", "no_next_affordance", "navigation_error"}

\* C12: with no total detected, no page numbered above the cap is extracted,
\* and an undisturbed traversal on which every page yields records and has
\* a next page ends with max_page_cap right after extracting the page whose
\* number is the cap (50 unless run_multi_page_extraction is given another).
C12_HardCapBoundsLoop ==
  total_pages = 0 =>
    /\ \A i \in 1..Len(visited) : visited[i].page <= max_pages
    /\ (Terminated /\ Undisturbed /\ AlwaysRecordsAndNext) =>
         /\ reason = "max_page_cap"
         /\ visited[Len(visited)].page = max_pages

C12_Witness ==
  /\ script = "results" /\ total_pages = 0
  /\ pc = "done" /\ reason = "max_page_cap"
  /\ AlwaysRecordsAndNext
  /\ Len(visited) = HardCap /\ visited[HardCap].page = HardCap

\* positions at which the extraction of page page_number is under way
ExtractingPcs == {"tables", "find_rows", "text", "append", "r_extract"}

RECURSIVE RecordsOf(_)
\* number of records the pages extracted so far yielded
RecordsOf(v) == IF v = <<>> THEN 0 ELSE Head(v).n + RecordsOf(Tail(v))

\* C13: pages are extracted in strictly increasing page-number order, none
\* twice, and while page N+1 is being extracted the records of every page
\* up to N are in all_records and the advance from page N has been made.
C13_StrictlySequential ==
  /\ \A i, j \in 1..Len(visited) :
       i < j => visited[i].page < visited[j].page
  /\ (pc \in ExtractingPcs /\ visited # <<>>) =>
       /\ page_number = visited[Len(visited)].page + 1
       /\ visited[Len(visited)].page \in navPages
       /\ Len(all_records) = RecordsOf(visited)

C13_Witness ==
  /\ pc \in ExtractingPcs
  /\ Len(visited) = 2
  /\ visited[1].n >= 1 /\ visited[2].n >= 1
  /\ page_number = visited[2].page + 1

\* the records of a page that are not duplicates of a record of the Session:
\* their (address, parcel, owner) key is empty or not a key of the Session
NewRecords(page, session) ==
  SelectSeq(page,
            LAMBDA r :
              \/ EnhancedKey(r) = <<<<>>, <<>>, <<>>>>
              \/ \A i \in 1..Len(session) :
                   EnhancedKey(session[i]) # EnhancedKey(r))

\* C14: the step that ends the extraction of a page sets the empty-page
\* counter to 0 exactly when the page brought a record that is not a
\* duplicate of a record already accumulated, and adds 1 to it otherwise.
C14_EmptyCounterReset ==
  [][(pc = "append" /\ visited' # visited) =>
       IF NewRecords(page_records, all_records) # <<>>
       THEN consecutive_empty_pages' = 0
       ELSE consecutive_empty_pages' = consecutive_empty_pages + 1]_vars

\* the entries of a keyword table with a keyword in the lower-cased header
Matching(table, header) ==
  {k \in 1..Len(table) : AnyIn(Lower(header), table[k].keywords)}

\* C16: a mapper gives each column at most one field: the first field of
\* the keyword table, in its iteration order, one of whose keywords occurs
\* in the lower-cased header; a column whose header matches no field has
\* no entry.
C16_FirstMatchingField ==
  calls > 0 =>
    /\ DOMAIN column_mapping \subseteq 1..Len(headers)
    /\ \A col \in 1..Len(headers) :
         LET ks == Matching(KeywordTable(mapper), headers[col])
         IN IF ks = {} THEN col \notin DOMAIN column_mapping
            ELSE /\ col \in DOMAIN column_mapping
                 /\ column_mapping[col] =
                      KeywordTable(mapper)[MinPos(ks)].field

C16_Witness ==
  /\ calls > 0
  /\ headers = <<Header.OwnerAddress, Header.Notes>>
  /\ Cardinality(Matching(KeywordTable(mapper), Header.OwnerAddress)) > 1
  /\ DOMAIN column_mapping = {1}
  /\ column_mapping[1] = "property_address"

\* C17: two calls of a mapper on the same header row return the same
\* mapping, whatever was mapped in between.
C17_MappingIdempotent ==
  (calls > 1 /\ headers = first_headers) => column_mapping = first_mapping

C17_Witness ==
  /\ calls = MaxCalls
  /\ headers = first_headers
  /\ column_mapping = first_mapping
  /\ column_mapping # EmptyMapping

\* C15: in both table extractions the second pass is non-destructive: a
\* field the first pass set to a non-empty value holds that value after the
\* content-based pass (multi) or the pattern pass (enhanced), whatever the
\* other cells of the row hold, also when the pass is left by a ValueError.
C15_BackfillNonDestructive ==
  stage \in {"filled", "raised", "done"} =>
    \A f \in DOMAIN header_record :
      header_record[f] # <<>> => record[f] = header_record[f]

\* a row whose "City" column was mapped to municipality and whose other
\* cells hold a city name and a price: the second pass filled sale_price and
\* left municipality alone
C15_Witness ==
  /\ extractor = "multi" /\ headed /\ stage = "filled"
  /\ columns = <<Col.City, Col.NotesCity, Col.NotesPrice>>
  /\ header_record["municipality"] = Col.City.text
  /\ record["municipality"] = Col.City.text
  /\ header_record["sale_price"] = <<>>
  /\ record["sale_price"] = Col.NotesPrice.text

\* the table of the scenario
ScenarioTable == <<Col.SalePrice, Col.OwnerName, Col.Location>>

\* the record of the scenario
ScenarioRecord(e) ==
  [NewRecord(e) EXCEPT !["sale_price"] = Col.SalePrice.text,
                       !["owner_name"] = Col.OwnerName.text,
                       !["property_address"] = Col.Location.text]

\* C18: the table with header ["Sale Price", "Owner Name", "Location"] and
\* data row ["$500,000", "Jane Doe", "123 Main St"] yields exactly one
\* record, with these three fields and every other data field empty; the
\* second pass fills nothing.
C18_ScenarioRecord ==
  (headed /\ columns = ScenarioTable) =>
    /\ stage # "raised"
    /\ stage \in {"mapped", "filled", "done"} =>
         /\ header_record = ScenarioRecord(extractor)
         /\ record = ScenarioRecord(extractor)
    /\ stage = "done" => records = <<ScenarioRecord(extractor)>>

C18_Witness ==
  /\ extractor = "enhanced" /\ headed /\ columns = ScenarioTable
  /\ stage = "done"
  /\ Len(records) = 1
  /\ records[1]["owner_name"] = <<"J", "a", "n", "e", " ", "D", "o", "e">>

\* the indices of the tables of a page that qualify as data tables
Qualifying(tables) == {i \in 1..Len(tables) : Qualifies(tables[i])}

\* the path of the fixed fallback order
Classification(r) ==
  IF Qualifying(r.tables) # {} THEN "table"
  ELSE IF r.elements > 1 THEN "rows"
  ELSE "text"

\* the extraction of the page ended without an exception
PageRead ==
  phase = "done" /\ ~(engine = "enhanced" /\ structure_type = "unknown")

\* C19: the path whose records the extraction of a page returns is the one
\* of the fixed fallback order: the tables iff some table has at least 2
\* rows and a keyword, else the result rows iff a selector matches more than
\* one element, else the text.
C19_ClassificationOrder ==
  PageRead => tried[Len(tried)] = Classification(render)

\* the qualifying table with the most rows, the first of them in document
\* order
BestTable(tables) ==
  CHOOSE i \in Qualifying(tables) :
    \A j \in Qualifying(tables) :
      \/ tables[i].rows > tables[j].rows
      \/ tables[i].rows = tables[j].rows /\ i <= j

\* C20: when several tables of the page qualify, the records returned are
\* those of the qualifying table with the most rows, the first such table in
\* document order.
C20_LargestTable ==
  (PageRead /\ Cardinality(Qualifying(render.tables)) > 1) =>
    extracted = ExtendAll(engine, render.tables,
                          <<BestTable(render.tables)>>, 1)

\* C21: an item of a page that raises an extraction error is skipped and
\* the loop goes on: when the method returns, the record of every item
\* that yields one, before and after a failing item, is among the records.
C21_FailingItemSkipped ==
  item_stage = "done" =>
    \A i \in 1..Len(items) : items[i] = "record" => i \in Range(item_records)

\* "success = main(); sys.exit(0 if success else 1)" of auto-extract.py,
\* where main returns what run returns, and run returns True only when
\* run_headless_extraction did
ExitStatus == IF returned = "true" THEN 0 ELSE 1

\* a record is in an output file on disk: the final or partial file, or a
\* backup left behind
Persisted ==
  \/ final_file.state = "ok" /\ final_file.content # <<>>
  \/ \E b \in backups : b.content # <<>>

\* C22: the run of auto-extract.py exits with status 0 if and only if at
\* least one record was persisted to an output file; a run whose final
\* write failed, or that accumulated no records, exits with a failure.
C22_SuccessIffPersisted ==
  (script = "auto" /\ pc = "done") => (ExitStatus = 0 <=> Persisted)

\* the key of the specification: the lower-cased, trimmed property
\* address, parcel number and owner name, joined by the separator
SpecifiedKey(r) ==
  Strip(Lower(r.property_address)) \o <<"|">>
    \o Strip(Lower(r.parcel_number)) \o <<"|">> \o Strip(Lower(r.owner_name))

\* record i of the argument has a non-empty key that no record before it
\* has
FirstOfItsKey(i) ==
  /\ SpecifiedKey(dedup_records[i]) # <<"|", "|">>
  /\ \A j \in 1..(i - 1) :
       SpecifiedKey(dedup_records[j]) # SpecifiedKey(dedup_records[i])

\* C23: two records are duplicates iff their keys (lower-cased, trimmed
\* address, parcel number and owner name, joined) are equal and non-empty:
\* the records returned are the first records of each non-empty key, in
\* the order of extraction, so that records differing only in letter case
\* or surrounding whitespace of a key part are duplicates.
C23_DedupKey ==
  (deduper # "none" /\ dedup_idx > Len(dedup_records)) =>
    LET first == SelectSeq([i \in 1..Len(dedup_records) |-> i],
                           FirstOfItsKey)
    IN unique_records = [k \in 1..Len(first) |-> dedup_records[first[k]]]

\* C24: a wait for the document that timed out is taken as "not yet" and
\* retried: the extraction of the page starts after a wait that timed out
\* only when the wait was made more than once.
C24_TimeoutRetried ==
  (engine = "multi" /\ phase \notin {"idle", "wait"}
     /\ ~load_waits[Len(load_waits)]) =>
    Len(load_waits) > 1

\* C25: the loops of run_multi_page_extraction and run_headless_extraction
\* terminate: page_number never decreases, every iteration that goes on to
\* another one adds exactly 1 to it and sets current_page to it, and from
\* start page s on at most actual_max_pages - s + 1 pages are extracted
\* before the final save.
C25_LoopTerminates ==
  [][(script \in {"multi", "auto"} /\ pc \notin {"start", "detect"}) =>
       /\ page_number' \in {page_number, page_number + 1}
       /\ current_page' = page_number'
       /\ (pc = "advance" /\ pc' \in {"pace", "loop_test"}) =>
            page_number' = page_number + 1
       /\ pc' = "tables" => page_number' = page_number
       /\ visited' # <<>> =>
            Len(visited') <= actual_max_pages' - visited'[1].page + 1]_vars

C25_Witness ==
  /\ script = "multi" /\ pc = "save" /\ reason = "max_page_cap"
  /\ Len(visited) >= 2
  /\ Len(visited) = actual_max_pages - visited[1].page + 1

\* C26: with a known total, no page numbered above min(max_pages,
\* total_pages) is extracted; when total_pages exceeds max_pages the loop
\* is never left for having reached the known total, and an undisturbed
\* traversal on which every page yields records and has a next page stops
\* with max_page_cap after the page numbered max_pages; a traversal whose
\* start page exceeds the bound extracts no page, and a traversal that
\* extracted no page writes no file.
C26_KnownTotalBound ==
  (script \in {"multi", "auto"} /\ total_pages # 0) =>
    /\ \A i \in 1..Len(visited) :
         visited[i].page <= max_pages /\ visited[i].page <= total_pages
    /\ total_pages > max_pages =>
         /\ reason # "reached_known_total"
         /\ (Terminated /\ Undisturbed /\ AlwaysRecordsAndNext) =>
              /\ reason = "max_page_cap"
              /\ visited[Len(visited)].page = max_pages
    /\ visited = <<>> => final_file = NoFile /\ backups = {}

C26_Witness ==
  /\ script = "multi" /\ pc = "done" /\ reason = "max_page_cap"
  /\ total_pages > max_pages
  /\ Len(visited) >= 2
  /\ visited[Len(visited)].page = max_pages
  /\ final_file.state = "ok"

RECURSIVE Trailing(_)
\* the number of successful checks at the end of a history of checks
Trailing(h) ==
  IF h = <<>> \/ h[Len(h)] # "loaded" THEN 0
  ELSE 1 + Trailing(SubSeq(h, 1, Len(h) - 1))

\* C27: wait_for_results_page_ready returns True only after 3 successful
\* checks in a row: a check with no connection, no results page or an
\* exception sets the counter back to 0, and the function returns False
\* when the time is up before 3 successes in a row.
C27_ThreeConsecutiveChecks ==
  pipeline = "automated" =>
    /\ stable_results_count = Trailing(checks)
    /\ ready = "true" => Trailing(checks) = RequiredStableChecks
    /\ ready = "false" =>
         \A k \in 0..Len(checks) :
           Trailing(SubSeq(checks, 1, k)) < RequiredStableChecks
    /\ step = "ready" => ready = "none"

C27_Witness ==
  /\ pipeline = "automated" /\ ready = "true"
  /\ checks = <<"loaded", "exception", "loaded", "loaded", "loaded">>

\* C28: the extraction is launched only after the search process exited
\* with return code 0 and the results page was verified ready; when a step
\* fails no later step is started and the run returns False; cleanup runs
\* on every exit, an interrupt included.
C28_PipelineOrder ==
  pipeline # "none" =>
    /\ "extraction" \in Range(started) =>
         search_process = "exited_0" /\ ready = "true"
    /\ checks # <<>> => "search" \in Range(started)
    /\ (step = "done" /\ "extraction" \notin Range(started)) => ~success
    /\ halted # "none" => ~success
    /\ step = "done" => cleaned

\* C30: verify_page_ready makes at most 5 attempts, returns True at the
\* first attempt that finds results data, takes an exception of an attempt
\* as a failed attempt, and returns False after the 5th failed attempt;
\* the extraction is not started after it returned False.
C30_VerifyPageReady ==
  pipeline = "auto" =>
    /\ Len(checks) <= MaxAttempts
    /\ \A i \in 1..(Len(checks) - 1) : checks[i] # "data"
    /\ ready = "true" <=> (checks # <<>> /\ checks[Len(checks)] = "data")
    /\ ready = "false" =>
         Len(checks) = MaxAttempts /\ checks[MaxAttempts] # "data"
    /\ (checks # <<>> /\ checks[Len(checks)] # "data"
          /\ Len(checks) < MaxAttempts /\ halted = "none") => step = "verify"
    /\ "extraction" \in Range(started) => ready = "true"

C30_Witness ==
  /\ pipeline = "auto" /\ step = "done" /\ ready = "false" /\ cleaned
  /\ checks = <<"no_data", "exception", "no_data", "exception", "exception">>
  /\ "extraction" \notin Range(started)
  /\ ~success

\* the columns of the table that the mapper gives field f
ColumnsOf(f) ==
  LET mapping == CreateColumnMapping("papa", HeaderRow, EmptyMapping)
  IN {i \in DOMAIN mapping : mapping[i] = f}

====
